---------------------------- MODULE Spec2Model ----------------------------
(***************************************************************************)
(* polycloze: the client-side review scheduler with its interval           *)
(* auto-tuner (srs.ts), the sync protocol between a client's local log and *)
(* the server's log (srs.ts / api/sync.go), the Wilson-score predicates    *)
(* (wilson.go) and the legacy Go scheduler (srs/review.go).                *)
(*                                                                         *)
(* Instants.  The code keeps instants in milliseconds.  The model draws    *)
(* them from the instants "h whole hours" and "h whole hours plus 500 ms"  *)
(* and encodes such an instant as the integer 2*h + f (f = 1 for the extra *)
(* 500 ms).  The encoding preserves order, adding k hours is adding        *)
(* k * hour, and dropping the sub-second part (Go's Time.Unix) clears f.   *)
(***************************************************************************)
EXTENDS Integers, Sequences, FiniteSets, TLC

\* ------------------------------------------------------------------ bounds
NumWords == 2
MaxOps == 2
HugeHours == 800000
MaxSamples == 30
MaxCount == 5
MaxClass == 2
MaxBatch == 2

Words == 1..NumWords
Devices == {"d1", "d2"}

\* ------------------------------------------------------- program constants
\* `const hour = 1000 * 60 * 60`, in the encoding of instants.
hour == 2
\* The interval (hours) of a first correct answer: `correct ? 24 : 0`.
FirstInterval == 24
\* srs/review.go: `const day time.Duration`, in hours.
day == 24
\* Number of doubling buckets seeded above bucket 0.
SeedBuckets == 16

\* ------------------------------------------------------------------ helpers
Min(S) == CHOOSE x \in S : \A y \in S : x <= y
Max(S) == CHOOSE x \in S : \A y \in S : x >= y

\* The function f with its values written out (same function).
Table(f) == f @@ f

RECURSIVE Pow2(_)
Pow2(i) == IF i = 0 THEN 1 ELSE 2 * Pow2(i - 1)

\* ------------------------------------------------------------ wilson.go
(***************************************************************************)
(* Wilson(success, fail, z) is                                             *)
(*   (ns + z^2/2)/(n + z^2) + (z/(n + z^2)) * sqrt(ns*nf/n + z^2/4),       *)
(* the root L of n*(ns/n - L)^2 = z^2 * L * (1 - L) on the side of z.      *)
(* It is a real number with a square root; the two callers only compare it *)
(* with a threshold t, and for n > 0                                       *)
(*   z < 0:  Wilson > t  <=>  ns/n > t  /\  n*(ns/n - t)^2 > z^2*t*(1-t)   *)
(*   z > 0:  Wilson < t  <=>  ns/n < t  /\  n*(t - ns/n)^2 > z^2*t*(1-t)   *)
(* which the operators below evaluate exactly in integers                  *)
(* (z = zn/zd, t = tn/td).  For n = 0 the code computes 0/0 = NaN, and     *)
(* every comparison with NaN is false.                                     *)
(***************************************************************************)
WilsonLowerAbove(success, fail, zn, zd, tn, td) ==
    LET n == success + fail
        k == td * success - tn * n
    IN  /\ n > 0
        /\ k > 0
        /\ zd * zd * k * k > zn * zn * tn * (td - tn) * n

WilsonUpperBelow(success, fail, zn, zd, tn, td) ==
    LET n == success + fail
        k == tn * n - td * success
    IN  /\ n > 0
        /\ k > 0
        /\ zd * zd * k * k > zn * zn * tn * (td - tn) * n

IsTooEasyFromZero(correct, incorrect) ==
    \/ correct + incorrect = 0
    \/ WilsonLowerAbove(correct, incorrect, 169, 200, 7, 8)

IsTooHardAboveLimit(correct, incorrect) ==
    /\ correct + incorrect > 0
    /\ ~WilsonUpperBelow(correct, incorrect, 31, 10, 4, 5)

\* z = -0.845 (= -169/200), lower > 0.875 (= 7/8)
IsTooEasy(correct, incorrect) ==
    WilsonLowerAbove(correct, incorrect, 169, 200, 7, 8)

\* z = 3.1 (= 31/10), upper < 0.8 (= 4/5)
IsTooHard(correct, incorrect) ==
    WilsonUpperBelow(correct, incorrect, 31, 10, 4, 5)

\* ------------------------------------------------- interval-stats store
\* The object store "interval-stats", keyPath "interval": a function from
\* the bucket keys (hours) to the bucket's counters.
ZeroCount == [correct |-> 0, incorrect |-> 0]

\* upgrade(): bucket 0 and the buckets 24 * 2^i, i = 0..15.
SeedLadder ==
    Table([k \in {0} \cup {24 * Pow2(i) : i \in 0..(SeedBuckets - 1)}
              |-> ZeroCount])

StoreDelete(stats, key) ==
    Table([k \in (DOMAIN stats) \ {key} |-> stats[k]])

StorePut(stats, key, value) ==
    Table([k \in (DOMAIN stats) \cup {key} |->
              IF k = key THEN value ELSE stats[k]])

updateIntervalStats(stats, interval, correct) ==
    IF interval \notin DOMAIN stats
    THEN stats
    ELSE IF correct
         THEN [stats EXCEPT ![interval].correct = @ + 1]
         ELSE [stats EXCEPT ![interval].incorrect = @ + 1]

\* nextInterval(store, interval, require).  The looked-up value is given in
\* ticks (delta / hour need not be a whole number of hours).  The result is
\* <<key>>, or <<>> for `undefined`; with require, <<>> stands for the null
\* cursor whose `.value` the code reads.
nextIntervalAtOrAbove(stats, ticks, require) ==
    LET atOrAbove == {k \in DOMAIN stats : k * hour >= ticks}
    IN  IF atOrAbove # {} THEN <<Min(atOrAbove)>>
        ELSE IF ~require THEN <<>>
        ELSE IF DOMAIN stats # {} THEN <<Max(DOMAIN stats)>>
        ELSE <<>>

nextInterval(stats, ticks, require) ==
    LET above == {k \in DOMAIN stats : k * hour > ticks}
        atOrAbove == {k \in DOMAIN stats : k * hour >= ticks}
    IN  IF above # {} THEN <<Min(above)>>
        ELSE IF ~require THEN <<>>
        ELSE IF atOrAbove # {} THEN <<Max(atOrAbove)>>
        ELSE <<>>

previousInterval(stats, ticks, require) ==
    LET below == {k \in DOMAIN stats : k * hour < ticks}
        atOrBelow == {k \in DOMAIN stats : k * hour <= ticks}
    IN  IF below # {} THEN <<Max(below)>>
        ELSE IF ~require THEN <<>>
        ELSE IF atOrBelow # {} THEN <<Min(atOrBelow)>>
        ELSE <<>>

\* store.add fails with a ConstraintError when the key exists; the request's
\* error aborts the transaction.  Tuning results carry that flag.
Tuned(stats, aborted) == [stats |-> stats, aborted |-> aborted]

lengthenIntervalKeepingBucket(stats, interval, next) ==
    IF next = <<>> THEN Tuned(stats, FALSE)
    ELSE LET mid == (interval + next[1]) \div 2
         IN  IF mid = interval \/ mid \in DOMAIN stats THEN Tuned(stats, FALSE)
             ELSE Tuned(StorePut(stats, mid, ZeroCount), FALSE)

lengthenIntervalDeletingNext(stats, interval, next) ==
    IF next = <<>> THEN Tuned(stats, FALSE)
    ELSE LET mid == (interval + next[1]) \div 2
         IN  IF mid = interval THEN Tuned(stats, FALSE)
             ELSE Tuned(StoreDelete(StorePut(stats, mid, ZeroCount), next[1]),
                        FALSE)

lengthenInterval(stats, interval, next) ==
    IF next = <<>> THEN Tuned(stats, FALSE)
    ELSE LET mid == (interval + next[1]) \div 2
         IN  IF mid = interval THEN Tuned(stats, FALSE)
             ELSE IF mid # next[1]
                  THEN IF mid \in DOMAIN stats
                       THEN Tuned(stats, TRUE)
                       ELSE Tuned(StoreDelete(StorePut(stats, mid, ZeroCount),
                                              interval), FALSE)
                  ELSE Tuned(StoreDelete(stats, interval), FALSE)

shortenIntervalKeepingAdjacent(stats, interval, prev) ==
    IF prev = <<>> THEN Tuned(stats, FALSE)
    ELSE LET mid == (interval + prev[1]) \div 2
         IN  IF mid = interval \/ mid = prev[1] THEN Tuned(stats, FALSE)
             ELSE Tuned(StoreDelete(StorePut(stats, mid, ZeroCount),
                                    interval), FALSE)

shortenInterval(stats, interval, prev) ==
    IF prev = <<>> THEN Tuned(stats, FALSE)
    ELSE LET mid == (interval + prev[1]) \div 2
         IN  IF mid = interval THEN Tuned(stats, FALSE)
             ELSE IF mid # prev[1]
                  THEN IF mid \in DOMAIN stats
                       THEN Tuned(stats, TRUE)
                       ELSE Tuned(StoreDelete(StorePut(stats, mid, ZeroCount),
                                              interval), FALSE)
                  ELSE Tuned(StoreDelete(stats, interval), FALSE)

autoTuneFromZero(stats, interval) ==
    IF interval \notin DOMAIN stats THEN Tuned(stats, FALSE)
    ELSE LET value == stats[interval]
         IN  IF IsTooEasy(value.correct, value.incorrect)
             THEN lengthenInterval(stats, interval,
                                   nextInterval(stats, interval * hour, FALSE))
             ELSE IF IsTooHard(value.correct, value.incorrect)
             THEN shortenInterval(stats, interval,
                                  previousInterval(stats, interval * hour, FALSE))
             ELSE Tuned(stats, FALSE)

autoTuneRestoringBucket(stats, interval) ==
    IF interval \notin DOMAIN stats
    THEN Tuned(StorePut(stats, interval, ZeroCount), FALSE)
    ELSE autoTuneFromZero(stats, interval)

autoTune(stats, interval) ==
    IF interval <= 24 THEN Tuned(stats, FALSE)
    ELSE IF interval \notin DOMAIN stats THEN Tuned(stats, FALSE)
    ELSE LET value == stats[interval]
         IN  IF IsTooEasy(value.correct, value.incorrect)
             THEN lengthenInterval(stats, interval,
                                   nextInterval(stats, interval * hour, FALSE))
             ELSE IF IsTooHard(value.correct, value.incorrect)
             THEN shortenInterval(stats, interval,
                                  previousInterval(stats, interval * hour, FALSE))
             ELSE Tuned(stats, FALSE)

\* ------------------------------------------------------ review scheduler
\* ReviewsValue.  `interval` is in hours, the dates are instants.
Review(word, learned, reviewed, interval, due, sequenceNumber) ==
    [word |-> word, learned |-> learned, reviewed |-> reviewed,
     interval |-> interval, due |-> due, sequenceNumber |-> sequenceNumber]

\* store.get(key): <<value>>, or <<>> for undefined.
StoreGet(store, key) == IF key \in DOMAIN store THEN <<store[key]>> ELSE <<>>

\* getSequenceNumber: increments the counter and returns it.
getSequenceNumber(seq) == seq + 1

\* setSequenceNumber: raises the counter to sequenceNumber if that is larger.
setSequenceNumber(seq, sequenceNumber) ==
    IF sequenceNumber <= seq THEN seq ELSE sequenceNumber

newReviewAlwaysDue(word, correct, now, seq) ==
    Review(word, now, now, IF correct THEN FirstInterval ELSE 0, now,
           getSequenceNumber(seq))

\* nextReview, `previous == null`.
newReview(word, correct, now, seq) ==
    LET interval == IF correct THEN FirstInterval ELSE 0
    IN  Review(word, now, now, interval, now + interval * hour,
               getSequenceNumber(seq))

failedReviewRelearned(word, previous, now, seq) ==
    Review(word, now, now, 0, now, getSequenceNumber(seq))

\* nextReview, `!correct`.
failedReview(word, previous, now, seq) ==
    Review(word, previous.learned, now, 0, now, getSequenceNumber(seq))

crammedReviewAdvancing(word, previous, now, seq) ==
    Review(word, previous.learned, now, 2 * previous.interval,
           now + 2 * previous.interval * hour, getSequenceNumber(seq))

\* nextReview, `now < previous.due`.
crammedReview(word, previous, now, seq) ==
    Review(word, previous.learned, now, previous.interval,
           now + previous.interval * hour, getSequenceNumber(seq))

\* nextReview, the last return, with the bucket nextInterval found.
advancedReview(word, previous, now, interval, seq) ==
    Review(word, previous.learned, now, interval, now + interval * hour,
           getSequenceNumber(seq))

\* nextReview(intervalStats, sequenceNumbers, word, previous, correct), with
\* `now` the value of its own `new Date()`.  thrown: the null cursor of
\* nextInterval was dereferenced (TypeError), before any sequence number was
\* taken.
Scheduled(review) == [thrown |-> FALSE, review |-> <<review>>]
Thrown == [thrown |-> TRUE, review |-> <<>>]

nextReview(stats, seq, word, previous, correct, now) ==
    IF previous = <<>> THEN Scheduled(newReview(word, correct, now, seq))
    ELSE IF ~correct THEN Scheduled(failedReview(word, previous[1], now, seq))
    ELSE IF now < previous[1].due
         THEN Scheduled(crammedReview(word, previous[1], now, seq))
    ELSE LET delta == now - previous[1].reviewed
             interval == nextInterval(stats, delta, TRUE)
         IN  IF interval = <<>> THEN Thrown
             ELSE Scheduled(advancedReview(word, previous[1], now,
                                           interval[1], seq))

\* The local database of one device: the stores "acknowledged-reviews" and
\* "unacknowledged-reviews" (keyPath word), "interval-stats",
\* "difficulty-stats" (keyPath difficulty, which saveReview never writes)
\* and the "sequence-number" entry of "sequence-numbers".
EmptyStore == <<>>

FreshDB ==
    [ack |-> EmptyStore, unack |-> EmptyStore, stats |-> SeedLadder,
     difficulty |-> EmptyStore, seq |-> 0]

\* saveReview(db, word, correct, now); clock is what `new Date()` returns
\* inside nextReview.  All stores are written in one transaction: it commits
\* what was written when the function throws without a failed request, and
\* it is rolled back when a request fails (aborted).
\*   previous, mid (the stats after updateIntervalStats) and review are
\*   reported along with the resulting database.
saveReview(db, word, correct, now, clock) ==
    LET previous == StoreGet(db.ack, word)
        key == IF previous = <<>> THEN 0 ELSE previous[1].interval
        mid == IF previous = <<>> \/ previous[1].due <= now
               THEN updateIntervalStats(db.stats, key, correct)
               ELSE db.stats
        next == nextReview(mid, db.seq, word, previous, correct, clock)
        tuned == autoTune(mid, key)
        report == [previous |-> previous, before |-> db.stats, mid |-> mid,
                   review |-> next.review]
    IN  IF next.thrown
        THEN [db |-> [db EXCEPT !.stats = mid], outcome |-> "error"] @@ report
        ELSE IF tuned.aborted
        THEN [db |-> db, outcome |-> "aborted"] @@ report
        ELSE [db |-> [ack |-> db.ack,
                      unack |-> StorePut(db.unack, word, next.review[1]),
                      stats |-> tuned.stats,
                      difficulty |-> db.difficulty,
                      seq |-> next.review[1].sequenceNumber],
              outcome |-> "ok"] @@ report

\* ------------------------------------------------- srs/review.go (legacy)
\* Review of package srs; Interval in hours.
SrsReview(due, interval, reviewed, correct, streak) ==
    [Due |-> due, Interval |-> interval, Reviewed |-> reviewed,
     Correct |-> correct, Streak |-> streak]

\* nextReview(review, correct, coefficient) of package srs, with `now` the
\* value of its time.Now(); review is <<>> for nil.
srsNextReview(review, correct, coefficient, now) ==
    LET interval == IF ~correct THEN 0
                    ELSE IF review # <<>> THEN coefficient * review[1].Interval
                    ELSE day
        streak == IF ~correct THEN 0
                  ELSE IF review # <<>> THEN review[1].Streak + 1
                  ELSE 1
    IN  SrsReview(now + interval * hour, interval, now, correct, streak)

\* ------------------------------------------------------------------- sync
\* JSON.stringify of a store's rows: <<rows>>; <<>> is the empty string.
EmptyString == <<>>
Stringify(rows) == <<rows>>

\* Sorted sequence of the reviews in S, smallest key first (key is a
\* function on S, injective).
RECURSIVE SortedBy(_, _)
SortedBy(S, key) ==
    IF S = {} THEN <<>>
    ELSE LET first == CHOOSE r \in S : \A q \in S : key[r] <= key[q]
         IN  <<first>> \o SortedBy(S \ {first}, key)

StoreValues(store) == {store[k] : k \in DOMAIN store}

\* getAllUnacknowledgedReviews: the cursor of the index "reviewed" (ties in
\* the order of the primary key, the word).
ReviewedKey(r) == r.reviewed * (NumWords + 1) + r.word
getAllUnacknowledgedReviews(unack) ==
    SortedBy(StoreValues(unack), [r \in StoreValues(unack) |-> ReviewedKey(r)])

\* latestAcknowledgedReview: last entry of the index "sequence-number".
latestAcknowledgedReview(ack) ==
    IF DOMAIN ack = {} THEN <<>>
    ELSE LET best == Max({ack[w].sequenceNumber : w \in DOMAIN ack})
         IN  <<CHOOSE r \in StoreValues(ack) : r.sequenceNumber = best>>

\* prepareUnpushedData: the body of the sync request.
prepareUnpushedData(db) ==
    LET latest == latestAcknowledgedReview(db.ack)
    IN  [latest |-> IF latest = <<>> THEN 0 ELSE latest[1].sequenceNumber,
         reviews |-> getAllUnacknowledgedReviews(db.unack),
         difficultyStats |-> Stringify(db.difficulty),
         intervalStats |-> Stringify(db.stats)]

\* Time.Unix(): whole seconds, which drops the 500 ms of an instant.
Unix(t) == 2 * (t \div 2)

\* A row of the server's table `review`; its dates are in seconds.
Row(word, learned, reviewed, interval, sequenceNumber) ==
    [word |-> word, learned |-> learned, reviewed |-> reviewed,
     interval |-> interval, sequenceNumber |-> sequenceNumber]

\* The server's sync database: the rows of `review` in insertion order and
\* the rows of `stat` (name -> value).
FreshServer == [review |-> <<>>, stat |-> <<>>]

\* moreRecent: the rows above sequenceNumber, ORDER BY sequence_number ASC
\* (rows with equal numbers in insertion order).
OrderBySequenceNumber(rows, picked) ==
    LET rest == (1..Len(rows)) \ picked
        Precedes(i, j) ==
            \/ rows[i].sequenceNumber < rows[j].sequenceNumber
            \/ /\ rows[i].sequenceNumber = rows[j].sequenceNumber
               /\ i < j
        rank == Table([j \in rest |->
                          Cardinality({i \in rest : Precedes(i, j)}) + 1])
    IN  [p \in 1..Cardinality(rest) |->
            rows[CHOOSE j \in rest : rank[j] = p]]

moreRecent(rows, sequenceNumber) ==
    LET skipped == {i \in 1..Len(rows) :
                        ~(rows[i].sequenceNumber > sequenceNumber)}
    IN  Table(OrderBySequenceNumber(rows, skipped))

\* getAllStats: both SELECTs scan into `difficulty`; `interval` keeps its
\* zero value.
getAllStats(stat) ==
    LET first == IF "difficulty" \in DOMAIN stat
                 THEN stat["difficulty"] ELSE EmptyString
        difficulty == IF "interval" \in DOMAIN stat
                      THEN stat["interval"] ELSE first
    IN  [difficultyStats |-> difficulty, intervalStats |-> EmptyString]

\* saveReviews: one INSERT per uploaded review, with the uploaded number.
saveReviews(rows, reviews) ==
    Table(rows \o [i \in 1..Len(reviews) |->
                      Row(reviews[i].word, Unix(reviews[i].learned),
                          Unix(reviews[i].reviewed), reviews[i].interval,
                          reviews[i].sequenceNumber)])

handleSyncSavingOnConflict(sdb, data) ==
    LET reviews == moreRecent(sdb.review, data.latest)
        stats == getAllStats(sdb.stat)
    IN  [sdb |-> [sdb EXCEPT !.review = saveReviews(@, data.reviews)],
         resp |-> IF Len(reviews) > 0
                  THEN [reviews |-> reviews,
                        difficultyStats |-> stats.difficultyStats,
                        intervalStats |-> stats.intervalStats]
                  ELSE [reviews |-> <<>>,
                        difficultyStats |-> EmptyString,
                        intervalStats |-> EmptyString]]

\* handleSync, from moreRecent on: the database afterwards and the response
\* (`{}` has no reviews and no stats).
handleSync(sdb, data) ==
    LET reviews == moreRecent(sdb.review, data.latest)
        stats == getAllStats(sdb.stat)
    IN  IF Len(reviews) > 0
        THEN [sdb |-> sdb,
              resp |-> [reviews |-> reviews,
                        difficultyStats |-> stats.difficultyStats,
                        intervalStats |-> stats.intervalStats]]
        ELSE [sdb |-> [sdb EXCEPT !.review = saveReviews(@, data.reviews)],
              resp |-> [reviews |-> <<>>,
                        difficultyStats |-> EmptyString,
                        intervalStats |-> EmptyString]]

\* acknowledgedReviews.put: the index "sequence-number" is unique, so a put
\* whose number another word holds fails and aborts the transaction.
Stored(store, aborted) == [store |-> store, aborted |-> aborted]

\* The puts reviews[from..to] in order, stopping at the first failure.
RECURSIVE PutRange(_, _, _, _)
PutRange(stored, reviews, from, to) ==
    IF stored.aborted \/ from > to THEN stored
    ELSE IF from = to
    THEN LET r == reviews[from]
             ack == stored.store
         IN  IF \E w \in DOMAIN ack :
                    w # r.word /\ ack[w].sequenceNumber = r.sequenceNumber
             THEN Stored(ack, TRUE)
             ELSE Stored(StorePut(ack, r.word, r), FALSE)
    ELSE LET half == (from + to) \div 2
             reached == PutRange(stored, reviews, from, half)
         IN  IF reached.aborted THEN reached
             ELSE PutRange(reached, reviews, half + 1, to)

PutAll(ack, reviews) == PutRange(Stored(ack, FALSE), reviews, 1, Len(reviews))

acknowledgeReviewsIntoEmptyLog(ack, unack) ==
    PutAll(EmptyStore, SortedBy(StoreValues(unack),
                                [r \in StoreValues(unack) |-> r.word]))

acknowledgeReviewsKeepingOlder(ack, unack) ==
    LET unseen == {r \in StoreValues(unack) : r.word \notin DOMAIN ack}
    IN  PutAll(ack, SortedBy(unseen, [r \in unseen |-> r.word]))

\* acknowledgeReviews: every unacknowledged review (cursor in key order) is
\* put into acknowledged-reviews, then the store is cleared.
acknowledgeReviews(ack, unack) ==
    PutAll(ack, SortedBy(StoreValues(unack),
                         [r \in StoreValues(unack) |-> r.word]))

AcknowledgedDueAtReview(rows) ==
    [i \in 1..Len(rows) |->
        Review(rows[i].word, rows[i].learned, rows[i].reviewed,
               rows[i].interval, rows[i].reviewed, rows[i].sequenceNumber)]

\* The reviews of a conflict response as sync() writes them.
Acknowledged(rows) ==
    [i \in 1..Len(rows) |->
        Review(rows[i].word, rows[i].learned, rows[i].reviewed,
               rows[i].interval, rows[i].reviewed + rows[i].interval * hour,
               rows[i].sequenceNumber)]

\* replaceDifficultyStats: clear(), then JSON.parse, which throws on "".
replaceDifficultyStats(difficulty, json) ==
    IF json = EmptyString
    THEN [stats |-> EmptyStore, thrown |-> TRUE]
    ELSE [stats |-> json[1], thrown |-> FALSE]

\* replaceIntervalStats: clear(), then JSON.parse, which throws on "".
replaceIntervalStats(stats, json) ==
    IF json = EmptyString
    THEN [stats |-> <<>>, thrown |-> TRUE]
    ELSE [stats |-> json[1], thrown |-> FALSE]

applyResponseKeepingPending(db, resp) ==
    IF Len(resp.reviews) = 0
    THEN LET moved == acknowledgeReviews(db.ack, db.unack)
         IN  [db |-> [db EXCEPT !.ack = moved.store, !.unack = EmptyStore],
              outcome |-> "acknowledged"]
    ELSE LET put == PutAll(db.ack, Acknowledged(resp.reviews))
             latest == Max({0} \cup {resp.reviews[i].sequenceNumber :
                                        i \in 1..Len(resp.reviews)})
         IN  [db |-> [db EXCEPT !.ack = put.store,
                                !.seq = setSequenceNumber(db.seq, latest)],
              outcome |-> "conflict"]

\* sync(), from the response on (its second transaction).
applyResponse(db, resp) ==
    IF Len(resp.reviews) = 0
    THEN LET moved == acknowledgeReviews(db.ack, db.unack)
         IN  IF moved.aborted
             THEN [db |-> db, outcome |-> "aborted"]
             ELSE [db |-> [db EXCEPT !.ack = moved.store,
                                     !.unack = EmptyStore],
                   outcome |-> "acknowledged"]
    ELSE LET put == PutAll(db.ack, Acknowledged(resp.reviews))
             latest == Max({0} \cup {resp.reviews[i].sequenceNumber :
                                        i \in 1..Len(resp.reviews)})
             replaced == replaceIntervalStats(db.stats, resp.intervalStats)
             difficulty == replaceDifficultyStats(db.difficulty,
                                                  resp.difficultyStats)
         IN  IF put.aborted
             THEN [db |-> db, outcome |-> "aborted"]
             ELSE [db |-> [ack |-> put.store,
                           unack |-> EmptyStore,
                           stats |-> replaced.stats,
                           difficulty |-> difficulty.stats,
                           seq |-> setSequenceNumber(db.seq, latest)],
                   outcome |-> IF replaced.thrown \/ difficulty.thrown
                               THEN "error"
                               ELSE "conflict"]

\* --------------------------------- review_scheduler (Go): saving reviews
\* The review database: the table `review` (item -> interval in hours,
\* learned, reviewed in seconds) and the interval ladder.
ReviewRow(interval, learned, reviewed) ==
    [interval |-> interval, learned |-> learned, reviewed |-> reviewed]

FreshReviewDB == [review |-> EmptyStore, stats |-> SeedLadder]

\* mostRecentReview: <<[interval, reviewed]>>, <<>> for nil.
mostRecentReview(tx, item) ==
    IF item \in DOMAIN tx.review
    THEN <<[interval |-> tx.review[item].interval,
            reviewed |-> tx.review[item].reviewed]>>
    ELSE <<>>

\* Review.Due(): Reviewed + Interval.
ReviewDue(review) == review.reviewed + review.interval * hour

\* nextReview(tx, review, correct, now): <<interval>>, <<>> for an error.
NextIntervalOf(stats, review, correct, now) ==
    LET previous == IF review = <<>> THEN <<>>
                    ELSE <<Review(0, review[1].reviewed, review[1].reviewed,
                                  review[1].interval, ReviewDue(review[1]),
                                  0)>>
        next == nextReview(stats, 0, 0, previous, correct, now)
    IN  IF next.thrown THEN <<>> ELSE <<next.review[1].interval>>

\* The statement of a save that returns an error ("none": no statement).
FailPoints == {"none", "recent", "stats", "next", "insert", "tune"}

Result(word, correct) == [word |-> word, correct |-> correct]

Returned(tx, err) == [tx |-> tx, err |-> err]

\* UpdateReviewAtTx(tx, result, now): the transaction's view afterwards and
\* whether an error was returned.
UpdateReviewAtTx(tx, result, now, fail) ==
    IF fail = "recent" THEN Returned(tx, TRUE)
    ELSE LET review == mostRecentReview(tx, result.word)
             key == IF review = <<>> THEN 0 ELSE review[1].interval
             counts == review = <<>> \/ ~(now < ReviewDue(review[1]))
             counted == IF counts
                        THEN [tx EXCEPT !.stats =
                                updateIntervalStats(@, key, result.correct)]
                        ELSE tx
             next == NextIntervalOf(counted.stats, review, result.correct, now)
             learned == IF result.word \in DOMAIN tx.review
                        THEN tx.review[result.word].learned
                        ELSE Unix(now)
         IN  IF counts /\ fail = "stats" THEN Returned(tx, TRUE)
             ELSE IF fail = "next" \/ next = <<>> THEN Returned(counted, TRUE)
             ELSE IF fail = "insert" THEN Returned(counted, TRUE)
             ELSE LET inserted ==
                          [counted EXCEPT !.review =
                              StorePut(@, result.word,
                                       ReviewRow(next[1], learned,
                                                 Unix(now)))]
                      tuned == autoTune(inserted.stats, key)
                  IN  IF fail = "tune" \/ tuned.aborted
                      THEN Returned(inserted, TRUE)
                      ELSE Returned([inserted EXCEPT !.stats = tuned.stats],
                                    FALSE)

\* UpdateReviewAt(q, item, correct, now): the database afterwards.  begin
\* and commit say whether q.Begin() and tx.Commit() return an error.
Updated(db, err) == [db |-> db, err |-> err]

UpdateReviewAt(db, item, correct, now, fail, begin, commit) ==
    IF begin THEN Updated(db, TRUE)
    ELSE LET saved == UpdateReviewAtTx(db, Result(item, correct), now, fail)
         IN  IF saved.err \/ commit THEN Updated(db, TRUE)
             ELSE Updated(saved.tx, FALSE)

\* The loop of BulkSaveReviews from reviews[from] on: the transaction's
\* view after each save (trace) and the error of each save (errs).
Saving(trace, errs) == [trace |-> trace, errs |-> errs]

BulkLoopStoppingAtError(saving, reviews, fails, now, from) ==
    IF from > Len(reviews) THEN saving
    ELSE LET saved == UpdateReviewAtTx(saving.trace[Len(saving.trace)],
                                       reviews[from], now, fails[from])
         IN  Saving(Append(saving.trace, saved.tx),
                    Append(saving.errs, saved.err))

RECURSIVE BulkLoop(_, _, _, _, _)
BulkLoop(saving, reviews, fails, now, from) ==
    IF from > Len(reviews) THEN saving
    ELSE LET saved == UpdateReviewAtTx(saving.trace[Len(saving.trace)],
                                       reviews[from], now, fails[from])
         IN  BulkLoop(Saving(Append(saving.trace, saved.tx),
                             Append(saving.errs, saved.err)),
                      reviews, fails, now, from + 1)

\* BulkSaveReviews(q, reviews, now): the database afterwards, with the
\* loop's record.
BulkSaveReviews(db, reviews, now, fails, begin, commit) ==
    IF begin
    THEN [db |-> db, err |-> TRUE, trace |-> <<db>>, errs |-> <<>>,
          began |-> FALSE, commits |-> 0]
    ELSE LET saving == BulkLoop(Saving(<<db>>, <<>>), reviews, fails, now, 1)
         IN  [db |-> IF commit THEN db
                     ELSE saving.trace[Len(saving.trace)],
              err |-> commit, trace |-> saving.trace, errs |-> saving.errs,
              began |-> TRUE, commits |-> 1]

\* -------------------------------------------------------------- placement
\* easiestUnseen: the smallest frequency class among the unseen words (given
\* as the set of their classes), 0 when there is none.
easiestUnseen(unseen) == IF unseen = {} THEN 0 ELSE Min(unseen)

placementLoopOffByOne(difficultyStats, rest, level, lastCorrect, lastIncorrect) ==
    IF rest = {} THEN level + 1 ELSE Min(rest)

\* placement, the loop from the cursor at the smallest key of rest on, and
\* the statements after it.
RECURSIVE placementLoop(_, _, _, _, _)
placementLoop(difficultyStats, rest, level, lastCorrect, lastIncorrect) ==
    IF rest = {}
    THEN IF IsTooEasy(lastCorrect, lastIncorrect) THEN level + 1 ELSE level
    ELSE LET difficulty == Min(rest)
             value == difficultyStats[difficulty]
         IN  IF IsTooHard(value.correct, value.incorrect) THEN level
             ELSE IF ~IsTooEasy(value.correct, value.incorrect)
             THEN difficulty
             ELSE placementLoop(difficultyStats, rest \ {difficulty},
                                difficulty, value.correct, value.incorrect)

\* placement(difficultyStats, unseenWords); difficultyStats is the store
\* "difficulty-stats" (difficulty -> counters).
placement(difficultyStats, unseen) ==
    placementLoop(difficultyStats, DOMAIN difficultyStats,
                  easiestUnseen(unseen), 0, 0)

\* ------------------------------------------------------------------ state
VARIABLES
    local,      \* device -> its local database
    server,     \* the server's sync database
    net,        \* device -> the sync request or response in flight
    clock,      \* the wall clock (an instant)
    srs,        \* package srs: the item's Review, <<>> for nil
    reviewdb,   \* package review_scheduler: the review database
    items,      \* the ItemBuffer of the page
    last,       \* what the last operation was given and what it returned
    ops         \* number of operations so far

vars == <<local, server, net, clock, srs, reviewdb, items, last, ops>>

Idle == [phase |-> "idle"]

\* new ItemBuffer(): no item, no key, frequencyClass undefined (<<>>).  An
\* item is the set of the words of its blanks.  `taken` is not a field of
\* the class: it records the words of the items take() has returned whose
\* review event has not arrived yet.
FreshBuffer ==
    [buffer |-> <<>>, keys |-> {}, frequencyClass |-> <<>>, taken |-> {}]

State(l, s, n, c, r, g, h, o) ==
    [local |-> l, server |-> s, net |-> n, clock |-> c, srs |-> r,
     reviewdb |-> g, last |-> h, ops |-> o]

Fresh ==
    State(Table([d \in Devices |-> FreshDB]), FreshServer,
          Table([d \in Devices |-> Idle]), 0, <<>>, FreshReviewDB,
          [op |-> "open"], 0)

\* The passage of time.
TickStep(st, delta) ==
    [st EXCEPT !.clock = @ + delta, !.last = [op |-> "tick"], !.ops = @ + 1]

\* The review listener: saveReview(db, word, correct) with the default
\* `now = new Date()`; nextReview reads the clock again, lag later.
SaveStep(st, d, word, correct, lag) ==
    LET now == st.clock
        saved == saveReview(st.local[d], word, correct, now, now + lag)
    IN  [st EXCEPT !.local[d] = saved.db,
                   !.clock = now + lag,
                   !.last = [op |-> "save", device |-> d, word |-> word,
                             db |-> st.local[d],
                             correct |-> correct, now |-> now,
                             clock |-> now + lag,
                             previous |-> saved.previous,
                             before |-> saved.before, mid |-> saved.mid,
                             after |-> saved.db.stats,
                             review |-> saved.review,
                             outcome |-> saved.outcome],
                   !.ops = @ + 1]

\* saveReview(db, word, correct, now) called with a `now` of the caller's;
\* nextReview reads the wall clock.
SaveAtStep(st, d, word, correct, now) ==
    LET saved == saveReview(st.local[d], word, correct, now, st.clock)
    IN  [st EXCEPT !.local[d] = saved.db,
                   !.last = [op |-> "save", device |-> d, word |-> word,
                             db |-> st.local[d],
                             correct |-> correct, now |-> now,
                             clock |-> st.clock,
                             previous |-> saved.previous,
                             before |-> saved.before, mid |-> saved.mid,
                             after |-> saved.db.stats,
                             review |-> saved.review,
                             outcome |-> saved.outcome],
                   !.ops = @ + 1]

\* sync(): the request is prepared in a read-only transaction and sent.
PrepareStep(st, d) ==
    [st EXCEPT !.net[d] = [phase |-> "sent",
                           data |-> prepareUnpushedData(st.local[d])],
               !.last = [op |-> "prepare", device |-> d],
               !.ops = @ + 1]

\* The server handles the request of device d.
HandleStep(st, d) ==
    LET handled == handleSync(st.server, st.net[d].data)
    IN  [st EXCEPT !.server = handled.sdb,
                   !.net[d] = [phase |-> "replied", data |-> handled.resp],
                   !.last = [op |-> "handle", device |-> d,
                             data |-> st.net[d].data,
                             before |-> st.server,
                             resp |-> handled.resp,
                             conflict |-> Len(handled.resp.reviews) > 0,
                             follows |-> /\ st.last.op = "prepare"
                                         /\ st.last.device = d],
                   !.ops = @ + 1]

\* sync(): the response arrives and is applied.
ApplyStep(st, d) ==
    LET applied == applyResponse(st.local[d], st.net[d].data)
    IN  [st EXCEPT !.local[d] = applied.db,
                   !.net[d] = Idle,
                   !.last = [op |-> "apply", device |-> d,
                             before |-> st.local[d],
                             resp |-> st.net[d].data,
                             outcome |-> applied.outcome,
                             follows |-> /\ st.last.op = "handle"
                                         /\ st.last.device = d
                                         /\ st.last.follows],
                   !.ops = @ + 1]

\* The request or the response is lost: syncReviews rejects and sync() ends
\* before its second transaction.
LoseStep(st, d) ==
    [st EXCEPT !.net[d] = Idle,
               !.last = [op |-> "lose", device |-> d,
                         before |-> st.local[d]],
               !.ops = @ + 1]

\* Package srs schedules the item.
SrsStep(st, correct, coefficient) ==
    LET next == srsNextReview(st.srs, correct, coefficient, st.clock)
    IN  [st EXCEPT !.srs = <<next>>,
                   !.last = [op |-> "srs", previous |-> st.srs,
                             correct |-> correct, now |-> st.clock,
                             coefficient |-> coefficient, review |-> next],
                   !.ops = @ + 1]

\* ----------------------------------------------------- earlier histories
\* The databases a device and the server hold after earlier use: each
\* history is a run of the operations above from the fresh installation.
Tick(delta) == [op |-> "tick", delta |-> delta]
Save(d, word, correct, lag) ==
    [op |-> "save", device |-> d, word |-> word, correct |-> correct,
     lag |-> lag]
Sync(d) == [op |-> "sync", device |-> d]
Send(d) == [op |-> "send", device |-> d]
\* The request in flight is handled and its response applied.
Answer(d) == [op |-> "answer", device |-> d]
\* sync() whose request the server handles and whose response is lost.
Unanswered(d) == [op |-> "unanswered", device |-> d]

Do(st, o) ==
    IF o.op = "tick" THEN TickStep(st, o.delta)
    ELSE IF o.op = "save"
    THEN SaveStep(st, o.device, o.word, o.correct, o.lag)
    ELSE IF o.op = "send" THEN PrepareStep(st, o.device)
    ELSE IF o.op = "answer"
    THEN ApplyStep(HandleStep(st, o.device), o.device)
    ELSE IF o.op = "unanswered"
    THEN LoseStep(HandleStep(PrepareStep(st, o.device), o.device), o.device)
    ELSE ApplyStep(HandleStep(PrepareStep(st, o.device), o.device), o.device)

\* The state after the operations history[from..to], in order.
RECURSIVE RunRange(_, _, _, _)
RunRange(st, history, from, to) ==
    IF from > to THEN st
    ELSE IF from = to THEN Do(st, history[from])
    ELSE LET half == (from + to) \div 2
             reached == RunRange(st, history, from, half)
         IN  IF reached.ops >= st.ops
             THEN RunRange(reached, history, half + 1, to)
             ELSE st

Run(st, history) == RunRange(st, history, 1, Len(history))

RECURSIVE Times(_, _)
Times(n, cycle) == IF n = 0 THEN <<>> ELSE cycle \o Times(n - 1, cycle)

\* Word 1 on device d1, at interval 0: answered correctly a day later, it
\* reaches the first bucket above 24 hours; four days later it is past due.
Climb == <<Tick(24 * hour), Save("d1", 1, TRUE, 0), Sync("d1"),
           Tick(96 * hour)>>
\* ... and is then answered wrongly: one more incorrect answer in that bucket.
HardCycle == Climb \o <<Save("d1", 1, FALSE, 0), Sync("d1")>>
\* ... and is then answered correctly: one more correct answer in that
\* bucket; an early wrong answer brings the word back to interval 0.
EasyCycle == Climb \o <<Save("d1", 1, TRUE, 0), Sync("d1"),
                        Save("d1", 1, FALSE, 0), Sync("d1")>>
\* Word 1 is new and answered wrongly.
Start == <<Save("d1", 1, FALSE, 0), Sync("d1")>>
\* Word 2 is new, answered wrongly, and correctly a day later.
Other == <<Save("d1", 2, FALSE, 0), Sync("d1"), Tick(24 * hour),
           Save("d1", 2, TRUE, 0), Sync("d1")>>

\* The largest key of the seeded ladder.
Ceiling == 24 * Pow2(SeedBuckets - 1)

Histories ==
    { \* the fresh installation
      <<>>,
      \* word 1 is due half a second from now
      <<Save("d1", 1, TRUE, 1), Sync("d1"), Tick(24 * hour - 1)>>,
      \* bucket 48 has two incorrect answers, word 1 is in it and past due
      Start \o Times(2, HardCycle) \o Climb,
      \* bucket 48 has four correct answers, word 1 is in it and past due
      Start \o Times(4, EasyCycle) \o Climb,
      \* bucket 48 was shortened to 36, 30, 27 and 25; bucket 25 has two
      \* incorrect answers, word 1 is in it and past due
      Start \o Times(14, HardCycle) \o Climb,
      \* bucket 48 was lengthened to 72, 84, 90, 93, 94 and 95; bucket 95 has
      \* four correct answers, word 1 is in it and past due
      Start \o Times(34, EasyCycle) \o Climb,
      \* word 2 is in bucket 48, which word 1's answers then shortened away
      Other \o Start \o Times(3, HardCycle) \o <<Tick(96 * hour)>>,
      \* device d1 has synced word 1; the first sync of device d2 is under way
      <<Save("d1", 1, TRUE, 0), Sync("d1"), Send("d2")>>,
      \* ... and device d2 has an answer of its own to upload
      <<Save("d1", 1, TRUE, 0), Sync("d1"), Tick(24 * hour),
        Save("d2", 2, TRUE, 0), Send("d2")>>,
      \* device d1 has synced word 1 and syncs again with nothing to upload
      <<Save("d1", 1, TRUE, 0), Sync("d1"), Send("d1")>>,
      \* word 1 is acknowledged on device d1 and was answered again; the
      \* upload of that answer is under way
      Start \o <<Tick(24 * hour), Save("d1", 1, TRUE, 0), Send("d1")>>,
      \* the server holds two reviews of device d1; device d2 has an answer
      \* to upload and its first sync is under way
      Other \o <<Save("d2", 1, TRUE, 0), Send("d2")>>,
      \* device d2 has uploaded word 2 after device d1's word 1; device d1
      \* has answered word 1 again and its sync is under way
      <<Save("d1", 1, TRUE, 0), Sync("d1"), Sync("d2"),
        Save("d2", 2, TRUE, 0), Sync("d2"),
        Save("d1", 1, TRUE, 0), Send("d1")>>,
      \* word 2 reached bucket 48 a day ago and is not due; word 1's third
      \* incorrect answer in bucket 48 then shortened that bucket away
      Start \o Times(2, HardCycle) \o Climb
        \o <<Save("d1", 2, FALSE, 0), Sync("d1"), Tick(24 * hour),
             Save("d1", 2, TRUE, 0), Sync("d1"),
             Save("d1", 1, FALSE, 0), Sync("d1")>>,
      \* the upload of word 1's first answer is under way and word 2 was
      \* answered meanwhile
      <<Save("d1", 1, TRUE, 0), Send("d1"), Save("d1", 2, TRUE, 0)>>,
      \* the server has stored the upload of word 1's two answers, the
      \* response was lost and device d1 syncs again
      Start \o <<Tick(24 * hour), Save("d1", 1, TRUE, 0), Unanswered("d1"),
                 Send("d1")>>,
      \* word 2, answered on device d1 during the upload of word 1, was
      \* acknowledged there without reaching the server; device d2 has since
      \* uploaded an answer to word 1, and device d1 syncs
      <<Save("d1", 1, TRUE, 0), Send("d1"), Save("d1", 2, TRUE, 0),
        Answer("d1"), Sync("d2"), Tick(24 * hour), Save("d2", 1, FALSE, 0),
        Sync("d2"), Send("d1")>>,
      \* word 1 has reached the largest bucket and was answered correctly
      \* five times when it fell due there
      <<Save("d1", 1, TRUE, 0), Sync("d1"), Tick(Ceiling * hour - 1),
        Save("d1", 1, TRUE, 0), Sync("d1")>>
        \o Times(5, <<Tick(Ceiling * hour), Save("d1", 1, TRUE, 0),
                      Sync("d1")>>) }

\* ------------------------------------------------------- specification
Becomes(st) ==
    /\ local' = st.local
    /\ server' = st.server
    /\ net' = st.net
    /\ clock' = st.clock
    /\ srs' = st.srs
    /\ reviewdb' = st.reviewdb
    /\ items' = items
    /\ last' = st.last
    /\ ops' = st.ops

Now == State(local, server, net, clock, srs, reviewdb, last, ops)

Init ==
    \E history \in Histories :
        LET st == Run(Fresh, history)
        IN  /\ local = st.local
            /\ server = st.server
            /\ net = st.net
            /\ clock = st.clock
            /\ srs = st.srs
            /\ reviewdb = st.reviewdb
            /\ items = FreshBuffer
            /\ last = st.last
            /\ ops = 0

Advances == {24 * hour, 96 * hour, HugeHours * hour}

TickAction ==
    /\ ops < MaxOps
    /\ \E delta \in Advances : Becomes(TickStep(Now, delta))

SaveAction ==
    /\ ops < MaxOps
    /\ \E d \in Devices, word \in Words, correct \in BOOLEAN, lag \in {0, 1} :
            Becomes(SaveStep(Now, d, word, correct, lag))

PrepareAction ==
    /\ ops < MaxOps
    /\ \E d \in Devices :
            /\ net[d].phase = "idle"
            /\ Becomes(PrepareStep(Now, d))

HandleAction ==
    /\ ops < MaxOps
    /\ \E d \in Devices :
            /\ net[d].phase = "sent"
            /\ Becomes(HandleStep(Now, d))

ApplyAction ==
    /\ ops < MaxOps
    /\ \E d \in Devices :
            /\ net[d].phase = "replied"
            /\ Becomes(ApplyStep(Now, d))

LoseAction ==
    /\ ops < MaxOps
    /\ \E d \in Devices :
            /\ net[d].phase \in {"sent", "replied"}
            /\ Becomes(LoseStep(Now, d))

SrsAction ==
    /\ ops < MaxOps
    /\ \E correct \in BOOLEAN, coefficient \in {1, 2} :
            Becomes(SrsStep(Now, correct, coefficient))

Next ==
    \/ TickAction
    \/ SaveAction
    \/ PrepareAction
    \/ HandleAction
    \/ ApplyAction
    \/ LoseAction
    \/ SrsAction

Spec == Init /\ [][Next]_vars

\* ------------------------------------------ saveReview with a given now
\* The instants a caller passes as `now`: the wall clock, or an instant
\* before a review it holds was learned.
CallInstants(d) ==
    {clock} \cup {local[d].ack[w].learned - hour :
                    w \in {v \in DOMAIN local[d].ack :
                              local[d].ack[v].learned >= hour}}

CallSaveAction ==
    /\ ops < MaxOps
    /\ \E d \in Devices, word \in Words, correct \in BOOLEAN :
            \E now \in CallInstants(d) :
                Becomes(SaveAtStep(Now, d, word, correct, now))

CallNext == CallSaveAction

CallSpec == Init /\ [][CallNext]_vars

\* ------------------------------------ review_scheduler called on its own
\* The review database after earlier saves, and the time of the call.
Began(db, now) == [db |-> db, now |-> now]

After(began, item, correct, elapsed) ==
    Began(UpdateReviewAt(began.db, item, correct, began.now, "none", FALSE,
                         FALSE).db,
          began.now + elapsed)

ReviewStarts ==
    { \* no review yet
      Began(FreshReviewDB, 0),
      \* item 1 was answered correctly a day ago and is due
      After(Began(FreshReviewDB, 0), 1, TRUE, 24 * hour),
      \* item 1 was answered correctly an hour ago
      After(Began(FreshReviewDB, 0), 1, TRUE, hour),
      \* both items were answered wrongly a day ago
      After(After(Began(FreshReviewDB, 0), 1, FALSE, 0), 2, FALSE,
            24 * hour) }

ReviewInit ==
    \E began \in ReviewStarts :
        /\ local = Fresh.local
        /\ server = Fresh.server
        /\ net = Fresh.net
        /\ clock = began.now
        /\ srs = Fresh.srs
        /\ reviewdb = began.db
        /\ items = FreshBuffer
        /\ last = Fresh.last
        /\ ops = 0

Results == {Result(word, correct) : word \in Words, correct \in BOOLEAN}

Batches == UNION {[1..n -> Results] : n \in 0..MaxBatch}

UpdateReviewAction ==
    /\ ops = 0
    /\ \E item \in Words, correct \in BOOLEAN, fail \in FailPoints,
          begin \in BOOLEAN, commit \in BOOLEAN :
            LET updated == UpdateReviewAt(reviewdb, item, correct, clock,
                                          fail, begin, commit)
            IN  /\ reviewdb' = updated.db
                /\ last' = [op |-> "update", before |-> reviewdb,
                            item |-> item, correct |-> correct,
                            now |-> clock, err |-> updated.err]
    /\ ops' = ops + 1
    /\ UNCHANGED <<local, server, net, clock, srs, items>>

BulkSaveAction ==
    /\ ops = 0
    /\ \E reviews \in Batches, begin \in BOOLEAN, commit \in BOOLEAN :
            \E fails \in IF begin
                         THEN {[i \in 1..Len(reviews) |-> "none"]}
                         ELSE [1..Len(reviews) -> FailPoints] :
                LET saved == BulkSaveReviews(reviewdb, reviews, clock, fails,
                                             begin, commit)
                IN  /\ reviewdb' = saved.db
                    /\ last' = [op |-> "bulk", before |-> reviewdb,
                                reviews |-> reviews, now |-> clock,
                                err |-> saved.err, trace |-> saved.trace,
                                errs |-> saved.errs,
                                began |-> saved.began,
                                commits |-> saved.commits]
    /\ ops' = ops + 1
    /\ UNCHANGED <<local, server, net, clock, srs, items>>

ReviewNext ==
    \/ UpdateReviewAction
    \/ BulkSaveAction

ReviewSpec == ReviewInit /\ [][ReviewNext]_vars

\* ---------------------------------------- the statistics functions alone
\* wilson.go, autoTune and placement applied to counters, ladders and
\* difficulty tables of bounded size, one application in a behaviour; last
\* records the arguments and the results.
Samples == 0..MaxSamples
Counts == [correct : 0..MaxCount, incorrect : 0..MaxCount]
\* Ladders with the buckets 0 and 24, some of the other keys, and one bucket
\* that holds answers.
LadderKeys == {0, 24, 25, 48, 50, 96}
Ladders ==
    {Table([k \in keys |-> IF k = counted THEN count ELSE ZeroCount]) :
        <<keys, counted, count>> \in
            {x \in (SUBSET LadderKeys) \X LadderKeys \X Counts :
                {0, 24} \subseteq x[1] /\ x[2] \in x[1]}}
\* Difficulty tables over the classes 0..MaxClass, and the classes of the
\* unseen words.
Classes == 0..MaxClass
ClassCounts == [correct : {0, 1, MaxCount}, incorrect : {0, MaxCount}]
DifficultyTables ==
    UNION {[classes -> ClassCounts] : classes \in SUBSET Classes}
UnseenPools == SUBSET (0..(MaxClass + 1))

StatsInit ==
    /\ local = Fresh.local
    /\ server = Fresh.server
    /\ net = Fresh.net
    /\ clock = Fresh.clock
    /\ srs = Fresh.srs
    /\ reviewdb = Fresh.reviewdb
    /\ items = FreshBuffer
    /\ last = Fresh.last
    /\ ops = 0

WilsonAction ==
    /\ ops = 0
    /\ \E correct \in Samples, incorrect \in Samples :
            last' = [op |-> "wilson", correct |-> correct,
                     incorrect |-> incorrect,
                     tooEasy |-> IsTooEasy(correct, incorrect),
                     tooHard |-> IsTooHard(correct, incorrect)]
    /\ ops' = ops + 1
    /\ UNCHANGED <<local, server, net, clock, srs, reviewdb, items>>

TuneAction ==
    /\ ops = 0
    /\ \E stats \in Ladders, interval \in LadderKeys :
            LET first == autoTune(stats, interval)
                second == autoTune(first.stats, interval)
            IN  last' = [op |-> "tune", stats |-> stats,
                         interval |-> interval, first |-> first,
                         second |-> second]
    /\ ops' = ops + 1
    /\ UNCHANGED <<local, server, net, clock, srs, reviewdb, items>>

PlacementAction ==
    /\ ops = 0
    /\ \E difficultyStats \in DifficultyTables, unseen \in UnseenPools :
            last' = [op |-> "placement", stats |-> Table(difficultyStats),
                     unseen |-> unseen,
                     level |-> placement(difficultyStats, unseen)]
    /\ ops' = ops + 1
    /\ UNCHANGED <<local, server, net, clock, srs, reviewdb, items>>

StatsNext ==
    \/ WilsonAction
    \/ TuneAction
    \/ PlacementAction

StatsSpec == StatsInit /\ [][StatsNext]_vars


\* ------------------------------------------------------------- properties
\* The properties speak of one `now`: the instant nextReview reads and
\* stamps on the review (reviewed), last.clock below.
Answered == last.op = "save"
HasPrevious == Answered /\ last.previous # <<>>
Previous == last.previous[1]
Produced == last.review[1]
\* The bucket the answer is counted in and the Auto-Tuner is run for.
LastKey == IF last.previous = <<>> THEN 0 ELSE Previous.interval
\* Ticks since the previous review.
Elapsed == last.clock - Previous.reviewed
Kept(d, word) ==
    /\ word \in DOMAIN local[d].unack
    /\ local[d].unack[word] = Produced

CrammedSave == HasPrevious /\ last.correct /\ last.clock < Previous.due

\* C1: a correct answer given before the previous review is due is saved
\* with interval = previous.interval and due = now + previous.interval, and
\* changes no counter of any bucket.
CrammedKeepsInterval ==
    CrammedSave =>
        /\ last.outcome = "ok"
        /\ Produced.interval = Previous.interval
        /\ Produced.due = last.clock + Previous.interval * hour
        /\ Kept(last.device, last.word)
        /\ last.mid = last.before
        /\ \A k \in DOMAIN last.before \cap DOMAIN last.after :
                last.after[k] = last.before[k]

CrammedSaveSeen == CrammedSave /\ Previous.interval > 0 /\ last.outcome = "ok"

PastDueCorrect == HasPrevious /\ last.correct /\ last.clock >= Previous.due

\* C2 as claimed: a correct answer on or after the due date gets the smallest
\* bucket key that is at least the elapsed hours (an equal key is chosen),
\* and due = now + that interval.
PastDueTakesBucketAtOrAbove ==
    (PastDueCorrect /\ \E k \in DOMAIN last.before : k * hour >= Elapsed) =>
        /\ last.review # <<>>
        /\ Produced.interval =
               Min({k \in DOMAIN last.before : k * hour >= Elapsed})
        /\ Produced.due = last.clock + Produced.interval * hour

\* C2 as amended: it gets the smallest bucket key strictly above the elapsed
\* hours; a key equal to the elapsed hours is chosen only when no key is
\* above it.  due = now + that interval.
PastDueTakesBucketAbove ==
    (PastDueCorrect /\ \E k \in DOMAIN last.before : k * hour >= Elapsed) =>
        LET above == {k \in DOMAIN last.before : k * hour > Elapsed}
        IN  /\ last.outcome = "ok"
            /\ Produced.interval = IF above # {} THEN Min(above)
                                   ELSE Max(DOMAIN last.before)
            /\ Produced.due = last.clock + Produced.interval * hour
            /\ Kept(last.device, last.word)

EqualKeySkipped ==
    /\ PastDueCorrect
    /\ last.outcome = "ok"
    /\ \E k \in DOMAIN last.before : k * hour = Elapsed /\ Produced.interval > k

\* C3: when the elapsed hours exceed every bucket key, a past-due correct
\* answer is saved with the largest bucket key as its interval.
BeyondLadderTakesLargest ==
    (/\ PastDueCorrect
     /\ DOMAIN last.before # {}
     /\ \A k \in DOMAIN last.before : k * hour < Elapsed) =>
        /\ last.outcome = "ok"
        /\ Produced.interval = Max(DOMAIN last.before)
        /\ Kept(last.device, last.word)

\* C4: the first answer to an item gives interval 24, due = now + 24 h and
\* streak 1 when correct, interval 0, due = now and streak 0 when incorrect;
\* learned = reviewed = now in both cases.
FirstAnswerSchedule ==
    /\ (Answered /\ last.previous = <<>>) =>
            /\ last.outcome = "ok"
            /\ Produced.interval = IF last.correct THEN 24 ELSE 0
            /\ Produced.due = IF last.correct THEN last.clock + 24 * hour
                              ELSE last.clock
            /\ Produced.learned = last.clock
            /\ Produced.reviewed = last.clock
            /\ Kept(last.device, last.word)
    /\ (last.op = "srs" /\ last.previous = <<>>) =>
            /\ last.review.Streak = IF last.correct THEN 1 ELSE 0
            /\ last.review.Interval = IF last.correct THEN 24 ELSE 0
            /\ last.review.Due = last.now + last.review.Interval * hour
            /\ last.review.Reviewed = last.now

FirstAnswerSeen ==
    Answered /\ last.previous = <<>> /\ last.correct /\ last.outcome = "ok"

\* C5: an incorrect answer to an item with a previous review gives interval
\* 0, due = now and streak 0, and keeps previous.learned.
IncorrectResets ==
    /\ (HasPrevious /\ ~last.correct) =>
            /\ last.outcome = "ok"
            /\ Produced.interval = 0
            /\ Produced.due = last.clock
            /\ Produced.reviewed = last.clock
            /\ Produced.learned = Previous.learned
            /\ Kept(last.device, last.word)
    /\ (last.op = "srs" /\ last.previous # <<>> /\ ~last.correct) =>
            /\ last.review.Streak = 0
            /\ last.review.Interval = 0
            /\ last.review.Due = last.now

IncorrectResetSeen ==
    /\ HasPrevious /\ ~last.correct
    /\ Previous.interval > 0
    /\ Previous.learned < last.clock
    /\ last.outcome = "ok"


NotCrammed == Answered /\ (last.previous = <<>> \/ last.clock >= Previous.due)

\* C6: an answer that is not crammed (no previous review, or now at or after
\* previous.due) increments exactly one counter by one, the correct or the
\* incorrect counter of the bucket previous.interval (0 without a previous
\* review), and no other counter.  Stated for the saves whose bucket exists.
NotCrammedCountsOnce ==
    (NotCrammed /\ LastKey \in DOMAIN last.before) =>
        /\ DOMAIN last.mid = DOMAIN last.before
        /\ \A k \in DOMAIN last.before \ {LastKey} :
                last.mid[k] = last.before[k]
        /\ last.mid[LastKey] =
               IF last.correct
               THEN [correct |-> last.before[LastKey].correct + 1,
                     incorrect |-> last.before[LastKey].incorrect]
               ELSE [correct |-> last.before[LastKey].correct,
                     incorrect |-> last.before[LastKey].incorrect + 1]

\* C7: every review in the unacknowledged and acknowledged stores of a
\* device, those written from a conflict response included, has
\* due = reviewed + interval hours.
DueIsReviewedPlusInterval ==
    \A d \in Devices :
        /\ \A w \in DOMAIN local[d].ack :
                local[d].ack[w].due =
                    local[d].ack[w].reviewed + local[d].ack[w].interval * hour
        /\ \A w \in DOMAIN local[d].unack :
                local[d].unack[w].due =
                    local[d].unack[w].reviewed
                        + local[d].unack[w].interval * hour

ConflictReviewsStored ==
    /\ last.op = "apply"
    /\ Len(last.resp.reviews) > 0
    /\ \E w \in DOMAIN local[last.device].ack :
            local[last.device].ack[w].interval > 0

\* C8: after any saves, tunings and syncs the interval ladder of a device is
\* not empty (its keys, the keys of a store, are unique and ordered).
LadderNeverEmpty == \A d \in Devices : DOMAIN local[d].stats # {}

TuneRan ==
    /\ Answered
    /\ last.outcome = "ok"
    /\ LastKey > 24
    /\ LastKey \in DOMAIN last.mid

TooEasyTune ==
    /\ TuneRan
    /\ IsTooEasy(last.mid[LastKey].correct, last.mid[LastKey].incorrect)
    /\ \E k \in DOMAIN last.mid : k > LastKey

NextAbove == Min({k \in DOMAIN last.mid : k > LastKey})
MidAbove == (LastKey + NextAbove) \div 2

\* C9: the Auto-Tuner on an existing bucket above 24 that is too easy and
\* has a next bucket: with mid = floor((interval + next) / 2), nothing
\* changes when mid = interval; otherwise the bucket is gone, bucket mid
\* exists with zero counters, and next and all other buckets are unchanged.
TooEasyLengthens ==
    TooEasyTune =>
        IF MidAbove = LastKey THEN last.after = last.mid
        ELSE /\ DOMAIN last.after =
                    (DOMAIN last.mid \ {LastKey}) \cup {MidAbove}
             /\ LastKey \notin DOMAIN last.after
             /\ last.after[MidAbove] = [correct |-> 0, incorrect |-> 0]
             /\ \A k \in DOMAIN last.mid \ {LastKey} :
                    last.after[k] = last.mid[k]

BucketLengthened ==
    TooEasyTune /\ MidAbove # LastKey /\ MidAbove \in DOMAIN last.after

TooHardTune ==
    /\ TuneRan
    /\ IsTooHard(last.mid[LastKey].correct, last.mid[LastKey].incorrect)
    /\ \E k \in DOMAIN last.mid : k < LastKey

PrevBelow == Max({k \in DOMAIN last.mid : k < LastKey})
MidBelow == (LastKey + PrevBelow) \div 2

\* C10 as claimed: the Auto-Tuner on an existing bucket above 24 that is too
\* hard, against the bucket prev below it: nothing changes when the two are
\* one hour apart; otherwise the bucket is replaced by a zero-count bucket
\* strictly between prev and it, and prev and all other buckets are
\* unchanged.
TooHardShortensOrSkips ==
    TooHardTune =>
        IF LastKey = PrevBelow + 1 THEN last.after = last.mid
        ELSE \E m \in (PrevBelow + 1)..(LastKey - 1) :
                /\ DOMAIN last.after = (DOMAIN last.mid \ {LastKey}) \cup {m}
                /\ last.after[m] = [correct |-> 0, incorrect |-> 0]
                /\ \A k \in DOMAIN last.mid \ {LastKey} :
                        last.after[k] = last.mid[k]

\* C10 as amended: when the two are one hour apart the bucket is deleted and
\* none is inserted; otherwise it is replaced by a zero-count bucket at
\* floor((interval + prev) / 2), strictly between prev and it.  prev and all
\* other buckets are unchanged in both cases.
TooHardShortensOrMerges ==
    TooHardTune =>
        /\ \A k \in DOMAIN last.mid \ {LastKey} :
                k \in DOMAIN last.after /\ last.after[k] = last.mid[k]
        /\ LastKey \notin DOMAIN last.after
        /\ IF LastKey = PrevBelow + 1
           THEN DOMAIN last.after = DOMAIN last.mid \ {LastKey}
           ELSE /\ PrevBelow < MidBelow
                /\ MidBelow < LastKey
                /\ DOMAIN last.after =
                       (DOMAIN last.mid \ {LastKey}) \cup {MidBelow}
                /\ last.after[MidBelow] = [correct |-> 0, incorrect |-> 0]

AdjacentBucketMerged ==
    TooHardTune /\ LastKey = PrevBelow + 1 /\ LastKey \notin DOMAIN last.after


SkewedLowBucket ==
    /\ Answered
    /\ last.outcome = "ok"
    /\ LastKey <= 24
    /\ LastKey \in DOMAIN last.mid
    /\ \/ IsTooEasy(last.mid[LastKey].correct, last.mid[LastKey].incorrect)
       \/ IsTooHard(last.mid[LastKey].correct, last.mid[LastKey].incorrect)

\* C11: the Auto-Tuner run for an interval of at most 24 hours changes
\* nothing, and no save's tuning deletes bucket 0 or bucket 24, whatever
\* their counters.
LowBucketsNeverTuned ==
    Answered =>
        /\ LastKey <= 24 => last.after = last.mid
        /\ \A k \in {0, 24} :
                k \in DOMAIN last.before =>
                    k \in DOMAIN last.mid /\ k \in DOMAIN last.after


TuneApplied == last.op = "tune"

RestructuredThenRerun ==
    /\ TuneApplied
    /\ last.first.stats # last.stats

\* C12: running the Auto-Tuner again on the ladder it has just restructured,
\* for the same interval or for the bucket it created, changes nothing; a
\* run that changed nothing changes nothing when repeated.
TuneIdempotent ==
    TuneApplied =>
        /\ last.second.stats = last.first.stats
        /\ \A created \in DOMAIN last.first.stats \ DOMAIN last.stats :
                autoTune(last.first.stats, created).stats = last.first.stats

WilsonApplied == last.op = "wilson"

TooEasySample ==
    /\ WilsonApplied
    /\ last.tooEasy

\* C13: no pair of counts is both too easy and too hard.
EasyAndHardExclusive ==
    WilsonApplied => ~(last.tooEasy /\ last.tooHard)

PlacementApplied == last.op = "placement"

\* The placement walk reaches class d: every smaller class of the table is
\* too easy and none of them is too hard.
WalkReaches(d) ==
    \A k \in DOMAIN last.stats :
        k < d => /\ IsTooEasy(last.stats[k].correct, last.stats[k].incorrect)
                 /\ ~IsTooHard(last.stats[k].correct, last.stats[k].incorrect)

TooHard(d) == IsTooHard(last.stats[d].correct, last.stats[d].incorrect)

TooEasy(d) == IsTooEasy(last.stats[d].correct, last.stats[d].incorrect)

\* The level placement starts with.
StartLevel ==
    IF last.unseen = {} THEN 0
    ELSE CHOOSE c \in last.unseen : \A other \in last.unseen : c <= other

\* The level held on reaching class d.
HeldBefore(d) ==
    LET walked == {k \in DOMAIN last.stats : k < d}
    IN  IF walked = {} THEN StartLevel ELSE Max(walked)

TooHardAfterEasy ==
    /\ PlacementApplied
    /\ \E d \in DOMAIN last.stats :
            /\ WalkReaches(d)
            /\ TooHard(d)
            /\ \E k \in DOMAIN last.stats : k < d
            /\ HeldBefore(d) # StartLevel

\* C15: placement starts at the smallest class among the unseen words (0 if
\* none) and walks the table by increasing class: at the first class that is
\* too hard it returns the level held before it, at the first class that is
\* not too easy it returns that class, after a walk of too easy classes only
\* it returns the last class + 1, and with an empty table the start level.
PlacementWalk ==
    PlacementApplied =>
        LET stops == {d \in DOMAIN last.stats : TooHard(d) \/ ~TooEasy(d)}
        IN  IF DOMAIN last.stats = {} THEN last.level = StartLevel
            ELSE IF stops = {} THEN last.level = Max(DOMAIN last.stats) + 1
            ELSE IF TooHard(Min(stops))
            THEN last.level = HeldBefore(Min(stops))
            ELSE last.level = Min(stops)

\* C16: with the unseen words fixed, a table that differs from the one placed
\* in better counters of one class (more correct, fewer incorrect) does not
\* place lower, whatever the smallest unseen class.
PlacementMonotone ==
    PlacementApplied =>
        \A d \in DOMAIN last.stats, better \in ClassCounts :
            /\ better.correct >= last.stats[d].correct
            /\ better.incorrect <= last.stats[d].incorrect
            => placement([last.stats EXCEPT ![d] = better], last.unseen)
                    >= last.level

Handled == last.op = "handle"

Applied == last.op = "apply"

EmptyAcknowledgment == Applied /\ Len(last.resp.reviews) = 0

IdleRoundTripDone ==
    /\ EmptyAcknowledgment
    /\ last.before.unack = EmptyStore
    /\ last.before.ack # EmptyStore
    /\ server.review # <<>>

\* C17: a sync whose request carries no pending review and meets no newer
\* review on the server leaves the server's log as it was, and its empty
\* response, applied while nothing is pending, leaves the local pending log,
\* acknowledged log, sequence counter and both histograms as they were.
IdleRoundTripChangesNothing ==
    /\ Handled /\ ~last.conflict /\ Len(last.data.reviews) = 0 =>
            /\ server = last.before
            /\ Len(last.resp.reviews) = 0
    /\ EmptyAcknowledgment /\ last.before.unack = EmptyStore =>
            local[last.device] = last.before

\* The request with every pending review's sequence number raised by one.
Renumbered(data) ==
    [data EXCEPT !.reviews =
        [i \in 1..Len(data.reviews) |->
            [data.reviews[i] EXCEPT !.sequenceNumber = @ + 1]]]

\* C18: a request that meets no newer review on the server gets an empty
\* response and each of its pending reviews appended to the server's log,
\* under a number the server draws itself: the numbers the client chose have
\* no part in the rows appended.
ServerNumbersItsAppends ==
    Handled /\ ~last.conflict =>
        /\ Len(last.resp.reviews) = 0
        /\ Len(server.review) =
                Len(last.before.review) + Len(last.data.reviews)
        /\ \A i \in 1..Len(last.before.review) :
                server.review[i] = last.before.review[i]
        /\ \A i \in 1..Len(last.data.reviews) :
                LET row == server.review[Len(last.before.review) + i]
                    review == last.data.reviews[i]
                IN  /\ row.word = review.word
                    /\ row.interval = review.interval
        /\ handleSync(last.before, Renumbered(last.data)).sdb = server

Newer(rows, latest) ==
    {i \in 1..Len(rows) : rows[i].sequenceNumber > latest}

ConflictWithPending ==
    /\ Handled
    /\ last.conflict
    /\ Len(last.data.reviews) > 0
    /\ Len(last.resp.reviews) > 1

\* C19: a request that meets a newer review on the server leaves the
\* server's log as it was, and the response holds exactly the server's
\* reviews above the request's latest number, by increasing number.
ConflictStoresNothing ==
    Handled /\ last.conflict =>
        LET sent == last.resp.reviews
            newer == Newer(last.before.review, last.data.latest)
        IN  /\ server = last.before
            /\ Len(sent) = Cardinality(newer)
            /\ \A i \in newer : \E p \in 1..Len(sent) :
                    sent[p] = last.before.review[i]
            /\ \A p \in 1..Len(sent) : \E i \in newer :
                    sent[p] = last.before.review[i]
            /\ \A p \in 1..Len(sent), q \in 1..Len(sent) :
                    p < q => sent[p].sequenceNumber < sent[q].sequenceNumber

PendingAcknowledged ==
    /\ EmptyAcknowledgment
    /\ \E w \in DOMAIN last.before.unack :
            /\ w \in DOMAIN last.before.ack
            /\ last.before.ack[w] # last.before.unack[w]

\* C20: after an empty response is applied, every review that was pending is
\* in the acknowledged log as it was, the pending log is empty, and the two
\* histograms and the sequence counter are as before.
EmptyAcknowledgmentMovesPending ==
    EmptyAcknowledgment =>
        LET before == last.before
            after == local[last.device]
        IN  /\ \A w \in DOMAIN before.unack :
                    w \in DOMAIN after.ack /\ after.ack[w] = before.unack[w]
            /\ after.unack = EmptyStore
            /\ after.stats = before.stats
            /\ after.difficulty = before.difficulty
            /\ after.seq = before.seq

ConflictApplied == Applied /\ Len(last.resp.reviews) > 0

\* The words of the reviews in a response.
ReturnedWords == {last.resp.reviews[i].word : i \in 1..Len(last.resp.reviews)}

PendingDiscardedOnConflict ==
    /\ ConflictApplied
    /\ last.before.unack # EmptyStore
    /\ \E w \in DOMAIN last.before.ack : w \notin ReturnedWords

\* C21: after a conflict response is applied the pending log is empty, each
\* returned word's acknowledged entry is the returned review of that word
\* with the highest sequence number, the acknowledged entries of the other
\* words are as before, and the sequence counter is at least the largest
\* sequence number of the response.
ConflictReplacesReturnedWords ==
    ConflictApplied =>
        LET before == last.before
            after == local[last.device]
            returned == last.resp.reviews
        IN  /\ after.unack = EmptyStore
            /\ DOMAIN after.ack = DOMAIN before.ack \cup ReturnedWords
            /\ \A w \in DOMAIN before.ack \ ReturnedWords :
                    after.ack[w] = before.ack[w]
            /\ \A i \in 1..Len(returned) :
                    (\A j \in 1..Len(returned) :
                        returned[j].word = returned[i].word =>
                            returned[j].sequenceNumber
                                <= returned[i].sequenceNumber)
                    => LET entry == after.ack[returned[i].word]
                       IN  /\ entry.word = returned[i].word
                           /\ entry.learned = returned[i].learned
                           /\ entry.reviewed = returned[i].reviewed
                           /\ entry.interval = returned[i].interval
                           /\ entry.sequenceNumber = returned[i].sequenceNumber
            /\ \A i \in 1..Len(returned) :
                    after.seq >= returned[i].sequenceNumber

\* The value of the row `name` of the server's table `stat`, "" without one.
StatValue(name) ==
    IF name \in DOMAIN server.stat THEN server.stat[name] ELSE EmptyString

\* C22: after a conflict response is applied the local interval and
\* difficulty tables hold exactly the buckets of the server's interval and
\* difficulty histograms.
ConflictInstallsServerHistograms ==
    ConflictApplied =>
        /\ StatValue("interval") # EmptyString
        /\ local[last.device].stats = StatValue("interval")[1]
        /\ StatValue("difficulty") # EmptyString
        /\ local[last.device].difficulty = StatValue("difficulty")[1]

\* The reviews a local database holds, pending or acknowledged.
Entries(db) == StoreValues(db.unack) \cup StoreValues(db.ack)

\* C23: in every step each device's sequence counter does not decrease, a
\* review newly written to a device's log has a number above every number
\* the log held for another word, and a review appended to the server's log
\* has a number above every number already in it.
SequenceNumbersNeverReused ==
    [][/\ \A d \in Devices :
            /\ local'[d].seq >= local[d].seq
            /\ \A r \in Entries(local'[d]) \ Entries(local[d]) :
                    \A q \in Entries(local[d]) :
                        q.word # r.word =>
                            q.sequenceNumber < r.sequenceNumber
       /\ \A i \in (Len(server.review) + 1)..Len(server'.review) :
                \A j \in 1..(i - 1) :
                    server'.review[j].sequenceNumber
                        < server'.review[i].sequenceNumber]_vars

\* C27: a sync that ends in an error after its request was sent (the request
\* or the response is lost, or applying the response fails, as on a conflict
\* response with a malformed histogram blob) leaves the local pending log,
\* acknowledged log, sequence counter and both histogram tables as they were.
FailedSyncLeavesLocal ==
    /\ last.op = "lose" => local[last.device] = last.before
    /\ Applied /\ last.outcome \in {"error", "aborted"} =>
            local[last.device] = last.before

\* C28: the interval of every review the scheduler produces is the key of a
\* bucket of the interval ladder it was computed from.
IntervalIsLadderKey ==
    Answered /\ last.outcome = "ok" =>
        last.review[1].interval \in DOMAIN last.mid

\* C29: a save is determined by the stored state, the word, the answer and
\* the supplied now: whatever the wall clock reads inside the scheduler, the
\* review and the ladder come out the same.
SaveDeterminedByNow ==
    Answered =>
        \A lag \in {0, 1} :
            LET again == saveReview(last.db, last.word, last.correct,
                                    last.now, last.now + lag)
            IN  /\ again.outcome = last.outcome
                /\ again.review = last.review
                /\ again.db.stats = last.after

\* C26: a save whose now is earlier than the previous review's learned date
\* is refused and leaves the reviews, the interval ladder and the sequence
\* counter as they were; every other save is scheduled without error.
EarlyNowRejected ==
    Answered =>
        IF HasPrevious /\ last.now < Previous.learned
        THEN /\ last.outcome # "ok"
             /\ local[last.device] = last.db
        ELSE last.outcome = "ok"

Imported == last.op = "bulk"

\* C24: what a save writes (the review row, the bucket's counter, the
\* tuner's insert and delete) is committed whole or not at all: a save that
\* returned an error has left nothing in the database, alone or in a bulk
\* import.
SaveCommitsWholeOrNothing ==
    /\ last.op = "update" /\ last.err => reviewdb = last.before
    /\ Imported =>
            \/ reviewdb = last.before
            \/ \A i \in 1..Len(last.errs) :
                    last.errs[i] => last.trace[i + 1] = last.trace[i]

ImportSurvivesFailure ==
    /\ Imported
    /\ ~last.err
    /\ \E i \in 1..Len(last.errs), j \in 1..Len(last.errs) :
            /\ i < j
            /\ last.errs[i]
            /\ ~last.errs[j]
            /\ last.reviews[i].word # last.reviews[j].word

\* C25: in a bulk import that began, every review is attempted in order
\* whatever failed before it, the commit is attempted once, and after a
\* commit without error every review whose save succeeded is in the table,
\* reviewed at the import's time.
ImportContinuesAfterFailure ==
    Imported /\ last.began =>
        /\ Len(last.errs) = Len(last.reviews)
        /\ last.commits = 1
        /\ ~last.err =>
                \A i \in 1..Len(last.reviews) :
                    ~last.errs[i] =>
                        /\ last.reviews[i].word \in DOMAIN reviewdb.review
                        /\ reviewdb.review[last.reviews[i].word].reviewed
                                = Unix(last.now)

\* ---------------------------------------------------------------------
\* Log parser (package logger).  A string is a sequence of one-character
\* strings, so that slicing, trimming and splitting are computed.
\* ---------------------------------------------------------------------

LF == "\n"
CR == "\r"
TAB == "\t"

Digits == <<"0", "1", "2", "3", "4", "5", "6", "7", "8", "9">>

IsDigit(c) == \E i \in 1..Len(Digits) : Digits[i] = c

DigitOf(c) == (CHOOSE i \in 1..Len(Digits) : Digits[i] = c) - 1

\* layout := "2006-01-02 15:04:05"; len(layout)
LayoutLen == 19

\* unicode.IsSpace, for the characters of the inputs
IsSpace(c) == c \in {" ", LF, CR, TAB}

\* strings.TrimSpace
TrimSpace(s) ==
    LET keep == {i \in 1..Len(s) : ~IsSpace(s[i])}
    IN  IF keep = {} THEN <<>> ELSE SubSeq(s, Min(keep), Max(keep))

\* strings.ReplaceAll(s, "\r\n", "\n")
RECURSIVE ReplaceCRLF(_)
ReplaceCRLF(s) ==
    IF s = <<>> THEN <<>>
    ELSE IF Len(s) >= 2 /\ s[1] = CR /\ s[2] = LF
         THEN <<LF>> \o ReplaceCRLF(SubSeq(s, 3, Len(s)))
         ELSE <<s[1]>> \o ReplaceCRLF(Tail(s))

\* strings.Split(s, "\n"): the pieces between the separators; a string
\* without a separator (the empty string too) is one piece.
RECURSIVE Split(_)
Split(s) ==
    LET seps == {i \in 1..Len(s) : s[i] = LF}
    IN  IF seps = {} THEN <<s>>
        ELSE <<SubSeq(s, 1, Min(seps) - 1)>> \o Split(SubSeq(s, Min(seps) + 1, Len(s)))

Time(y, mo, d, h, mi, sec) ==
    [year |-> y, month |-> mo, day |-> d, hour |-> h, min |-> mi, sec |-> sec]

\* time.Time{}
ZeroTime == Time(1, 1, 1, 0, 0, 0)

isLeap(year) == year % 4 = 0 /\ (year % 100 # 0 \/ year % 400 = 0)

daysIn(month, year) ==
    IF month = 2 THEN (IF isLeap(year) THEN 29 ELSE 28)
    ELSE IF month \in {4, 6, 9, 11} THEN 30 ELSE 31

Number(v, from, to) ==
    LET RECURSIVE value(_)
        value(i) == IF i < from THEN 0 ELSE 10 * value(i - 1) + DigitOf(v[i])
    IN  value(to)

\* time.Parse("2006-01-02 15:04:05", v) for a value of len(layout)
\* characters: fixed-width numeric fields between the literal separators,
\* each within its range.
timeParse(v) ==
    LET digits == {1, 2, 3, 4, 6, 7, 9, 10, 12, 13, 15, 16, 18, 19}
        shaped == /\ \A i \in digits : IsDigit(v[i])
                  /\ v[5] = "-" /\ v[8] = "-" /\ v[11] = " "
                  /\ v[14] = ":" /\ v[17] = ":"
        t == Time(Number(v, 1, 4), Number(v, 6, 7), Number(v, 9, 10),
                  Number(v, 12, 13), Number(v, 15, 16), Number(v, 18, 19))
    IN  IF ~shaped THEN [ok |-> FALSE, time |-> ZeroTime]
        ELSE IF /\ t.month \in 1..12
                /\ t.day \in 1..daysIn(t.month, t.year)
                /\ t.hour < 24 /\ t.min < 60 /\ t.sec < 60
             THEN [ok |-> TRUE, time |-> t]
             ELSE [ok |-> FALSE, time |-> ZeroTime]

LogEvent(correct, timestamp, word) ==
    [Correct |-> correct, Timestamp |-> timestamp, Word |-> word]

\* What a call does: it returns (value, err), or it panics on a slice out
\* of range.
Outcome(value, err, panic) == [value |-> value, err |-> err, panic |-> panic]

ParseLine(line) ==
    IF Len(line) < 2 THEN Outcome(LogEvent(FALSE, ZeroTime, <<>>), "nil", TRUE)
    ELSE LET mark == SubSeq(line, 1, 2)
             rest == SubSeq(line, 3, Len(line))
         IN  IF mark \notin {<<"x", " ">>, <<"/", " ">>}
             THEN Outcome(LogEvent(FALSE, ZeroTime, <<>>), "ErrParseError", FALSE)
             ELSE IF Len(rest) < LayoutLen
             THEN Outcome(LogEvent(mark[1] = "/", ZeroTime, <<>>), "nil", TRUE)
             ELSE LET stamp == timeParse(SubSeq(rest, 1, LayoutLen))
                      tail == SubSeq(rest, LayoutLen + 1, Len(rest))
                  IN  IF ~stamp.ok
                      THEN Outcome(LogEvent(mark[1] = "/", ZeroTime, <<>>), "time", FALSE)
                      ELSE IF Len(tail) < 1
                      THEN Outcome(LogEvent(mark[1] = "/", stamp.time, <<>>), "nil", TRUE)
                      ELSE Outcome(LogEvent(mark[1] = "/", stamp.time,
                                            SubSeq(tail, 2, Len(tail))), "nil", FALSE)

\* The loop of Parse from line `from` on, with the events appended so far.
RECURSIVE ParseLoop(_, _, _)
ParseLoop(lines, from, events) ==
    IF from > Len(lines) THEN Outcome(events, "nil", FALSE)
    ELSE LET line == ParseLine(lines[from])
         IN  IF line.panic THEN Outcome(<<>>, "nil", TRUE)
             ELSE IF line.err # "nil" THEN Outcome(<<>>, line.err, FALSE)
             ELSE ParseLoop(lines, from + 1, Append(events, line.value))

Parse(s) == ParseLoop(Split(ReplaceCRLF(TrimSpace(s))), 1, <<>>)

\* ---------------------------------------------------------------------
\* ParseSpec: Parse and ParseLine applied once to a log text drawn from
\* bounded sets of marks, timestamps, separators and words.
\* ---------------------------------------------------------------------

MaxLines == 2

Stamp2021 == <<"2", "0", "2", "1", "-", "0", "1", "-", "0", "1", " ", "0", "1", ":", "0", "2", ":", "0", "3">>
Stamp2022 == <<"2", "0", "2", "2", "-", "0", "2", "-", "0", "2", " ", "0", "1", ":", "0", "2", ":", "0", "3">>
StampLeapDay == <<"2", "0", "2", "4", "-", "0", "2", "-", "2", "9", " ", "2", "3", ":", "5", "9", ":", "5", "9">>
StampMonth13 == <<"2", "0", "2", "1", "-", "1", "3", "-", "0", "1", " ", "0", "1", ":", "0", "2", ":", "0", "3">>
StampFeb30 == <<"2", "0", "2", "1", "-", "0", "2", "-", "3", "0", " ", "0", "1", ":", "0", "2", ":", "0", "3">>
StampCut == <<"2", "0", "2", "1", "-", "0", "1", "-", "0", "1">>

Marks == {<<"/", " ">>, <<"x", " ">>, <<"y", " ">>, <<"/">>, <<>>}

Stamps == {Stamp2021, Stamp2022, StampLeapDay, StampMonth13, StampFeb30, StampCut, <<>>}

Gaps == {<<" ">>, <<"_">>, <<>>}

Texts == {<<>>, <<"f", "o", "o">>, <<"a", " ", "b">>, <<"a", " ">>, <<" ", "a">>}

LogLines == {m \o t \o g \o w : m \in Marks, t \in Stamps, g \in Gaps, w \in Texts}

Breaks == {<<LF>>, <<CR, LF>>}

Ends == Breaks \cup {<<>>}

\* The lines of the longer texts: the two lines of TestParse, a word with
\* spaces, a line without a word, an unknown mark and a blank line.
PoolLines ==
    {<<"/", " ">> \o Stamp2021 \o <<" ", "f", "o", "o">>,
     <<"x", " ">> \o Stamp2022 \o <<" ", "b", "a", "r">>,
     <<"/", " ">> \o Stamp2021 \o <<" ", "a", " ", "b">>,
     <<"/", " ">> \o Stamp2021,
     <<"y", " ">> \o Stamp2021 \o <<" ", "f", "o", "o">>,
     <<>>}

RECURSIVE Joined(_)
Joined(n) ==
    IF n = 1 THEN PoolLines
    ELSE {text \o b \o line : text \in Joined(n - 1), b \in Breaks, line \in PoolLines}

Logs ==
    {lead \o body \o e :
        lead \in {<<>>, <<" ">>},
        body \in LogLines \cup UNION {Joined(n) : n \in 2..MaxLines},
        e \in Ends}

ParseInit == StatsInit

Parsed(op, s, outcome) ==
    [op |-> op, s |-> s, value |-> outcome.value, err |-> outcome.err, panic |-> outcome.panic]

ParseAction ==
    /\ ops = 0
    /\ \E s \in Logs : last' = Parsed("parse", s, Parse(s))
    /\ ops' = ops + 1
    /\ UNCHANGED <<local, server, net, clock, srs, reviewdb, items>>

ParseLineAction ==
    /\ ops = 0
    /\ \E line \in LogLines : last' = Parsed("parseLine", line, ParseLine(line))
    /\ ops' = ops + 1
    /\ UNCHANGED <<local, server, net, clock, srs, reviewdb, items>>

ParseNext ==
    \/ ParseAction
    \/ ParseLineAction

ParseSpec == ParseInit /\ [][ParseNext]_vars

\* The lines of a log text: the pieces between line breaks ("\n" or
\* "\r\n"), a final line break not starting another line.
InputLines(s) ==
    LET pieces == Split(ReplaceCRLF(s))
    IN  IF pieces[Len(pieces)] = <<>> THEN SubSeq(pieces, 1, Len(pieces) - 1) ELSE pieces

\* A valid line: "/ " or "x ", a timestamp of LayoutLen characters, a
\* space, and the word.
ValidLine(line) ==
    /\ Len(line) >= 2 + LayoutLen + 1
    /\ SubSeq(line, 1, 2) \in {<<"/", " ">>, <<"x", " ">>}
    /\ timeParse(SubSeq(line, 3, 2 + LayoutLen)).ok
    /\ line[2 + LayoutLen + 1] = " "

EventOf(line) ==
    LogEvent(line[1] = "/",
             timeParse(SubSeq(line, 3, 2 + LayoutLen)).time,
             SubSeq(line, 2 + LayoutLen + 2, Len(line)))

\* C30: Parse returns one LogEvent per input line, in input order, with
\* Correct true for a line starting with "/ " and false for one starting
\* with "x ", Timestamp the 19-character timestamp that follows and Word
\* the whole remainder of the line, spaces included; if any line is
\* invalid Parse returns an error and no events.
ParseReturnsEventPerLine ==
    last.op = "parse" =>
        LET lines == InputLines(last.s)
        IN  /\ ~last.panic
            /\ IF \A i \in 1..Len(lines) : ValidLine(lines[i])
               THEN /\ last.err = "nil"
                    /\ last.value = [i \in 1..Len(lines) |-> EventOf(lines[i])]
               ELSE /\ last.err # "nil"
                    /\ last.value = <<>>

\* The save got as far as calling the Auto-Tuner (nextReview returned), for
\* an interval that has no bucket ...
TunedMissingBucket ==
    /\ Answered
    /\ last.outcome # "error"
    /\ LastKey \notin DOMAIN last.mid

\* ... or for a too-easy bucket that is the largest of the ladder.
TunedTooEasyCeiling ==
    /\ Answered
    /\ last.outcome # "error"
    /\ LastKey > 24
    /\ LastKey \in DOMAIN last.mid
    /\ LastKey = Max(DOMAIN last.mid)
    /\ IsTooEasy(last.mid[LastKey].correct, last.mid[LastKey].incorrect)

\* C31: the Auto-Tuner invoked for an interval whose bucket does not exist,
\* or for a too-easy bucket that is the largest in the ladder, changes
\* nothing in the ladder and raises no error, and the review save it belongs
\* to commits (the review is stored).
InertTuneStillCommits ==
    TunedMissingBucket \/ TunedTooEasyCeiling =>
        /\ last.after = last.mid
        /\ last.outcome = "ok"
        /\ Kept(last.device, last.word)

\* ---------------------------------------------------------------------
\* schedule (srs.ts) with hardWords and easyWords (words.ts)
\* ---------------------------------------------------------------------

\* A row of the store "word-list" (keyPath word).
WordEntry(word, frequencyClass, seen) ==
    [word |-> word, frequencyClass |-> frequencyClass, seen |-> seen]

\* The first n elements of a sequence (all of it when it is shorter, none
\* when n is not positive).
Prefix(seq, n) == SubSeq(seq, 1, Min({Max({n, 0}), Len(seq)}))

Reverse(seq) == [i \in 1..Len(seq) |-> seq[Len(seq) + 1 - i]]

\* The rows a cursor of the index "seen,frequency-class" visits in direction
\* "next": by seen, then frequency class, then the primary key.
ByFrequencyClass(rows) ==
    LET top == 1 + Max({0} \cup {r.word : r \in rows}
                           \cup {r.frequencyClass : r \in rows})
    IN  SortedBy(rows, [r \in rows |->
                            (r.seen * top + r.frequencyClass) * top + r.word])

WordOf(rows) == [i \in 1..Len(rows) |-> rows[i].word]

\* The classes of the unseen words, as placement's easiestUnseen reads them.
UnseenClasses(wordList) ==
    {wordList[w].frequencyClass : w \in {v \in DOMAIN wordList : wordList[v].seen = 0}}

\* hardWords(store, difficulty, limit, exclude): the loop visits at most
\* `limit` rows of the range [0, difficulty] <= key < [1, 0].
hardWords(wordList, difficulty, limit, exclude) ==
    LET range == {r \in StoreValues(wordList) :
                    r.seen = 0 /\ r.frequencyClass >= difficulty}
        visited == Prefix(WordOf(ByFrequencyClass(range)), limit)
    IN  SelectSeq(visited, LAMBDA word : word \notin exclude)

\* easyWords(store, difficulty, limit, exclude): the range key < [0,
\* difficulty], in direction "prev".
easyWords(wordList, difficulty, limit, exclude) ==
    LET range == {r \in StoreValues(wordList) :
                    r.seen < 0 \/ (r.seen = 0 /\ r.frequencyClass < difficulty)}
        visited == Prefix(Reverse(WordOf(ByFrequencyClass(range))), limit)
    IN  SelectSeq(visited, LAMBDA word : word \notin exclude)

\* The rows the cursor of the index "due" visits in upperBound(now): by due,
\* then the primary key.
DueRows(ack, now) ==
    LET rows == {r \in StoreValues(ack) : r.due <= now}
        top == 1 + Max({0} \cup {r.word : r \in rows})
    IN  SortedBy(rows, [r \in rows |-> r.due * top + r.word])

\* schedule: the loop over the due reviews, from row `from` on.
RECURSIVE scheduleDue(_, _, _, _, _)
scheduleDue(rows, from, reviews, limit, exclude) ==
    IF from > Len(rows) \/ Len(reviews) >= limit THEN reviews
    ELSE scheduleDue(rows, from + 1,
                     IF rows[from].word \notin exclude
                     THEN Append(reviews, rows[from].word)
                     ELSE reviews,
                     limit, exclude)

\* schedule(db, limit, exclude) at the instant `now` of its `new Date()`;
\* db has the stores "acknowledged-reviews", "difficulty-stats" and
\* "word-list".  hardWords and easyWords are called without `exclude`: it
\* takes its default, the empty set.
schedule(db, limit, exclude, now) ==
    LET reviews == scheduleDue(DueRows(db.ack, now), 1, <<>>, limit, exclude)
        level == placement(db.difficulty, UnseenClasses(db.wordList))
        hard == reviews \o hardWords(db.wordList, level, limit - Len(reviews), {})
        easy == hard \o easyWords(db.wordList, level, limit - Len(hard), {})
    IN  IF Len(reviews) >= limit THEN reviews
        ELSE IF Len(hard) >= limit THEN hard
        ELSE easy

\* ---------------------------------------------------------------------
\* ScheduleSpec: schedule applied once to a database drawn from bounded
\* sets of acknowledged reviews, word lists and difficulty tables.
\* ---------------------------------------------------------------------

MaxLimit == 2

Vocabulary == 1..(NumWords + 1)

\* The instant of the call.
ScheduleNow == 10 * hour

\* Each word is not reviewed yet, due (the larger word first) or not due.
Dues == [Vocabulary -> {"none", "due", "later"}]

AckOf(dues) ==
    Table([w \in {v \in Vocabulary : dues[v] # "none"} |->
              Review(w, 0, 0, FirstInterval,
                     IF dues[w] = "due" THEN ScheduleNow - w ELSE ScheduleNow + 1,
                     w)])

\* Word w has frequency class w % (MaxClass + 1); the words of `seen` are
\* marked seen.
WordListOf(seen) ==
    Table([w \in Vocabulary |->
              WordEntry(w, w % (MaxClass + 1), IF w \in seen THEN 1 ELSE 0)])

\* No answers yet, or class 0 found too easy.
ScheduleTables ==
    {EmptyStore, Table([c \in {0} |-> [correct |-> MaxCount, incorrect |-> 0]])}

ScheduleInit == StatsInit

ScheduleAction ==
    /\ ops = 0
    /\ \E dues \in Dues, seen \in SUBSET Vocabulary,
          difficulty \in ScheduleTables,
          limit \in 0..MaxLimit, exclude \in SUBSET Vocabulary :
            LET db == [ack |-> AckOf(dues), difficulty |-> difficulty,
                       wordList |-> WordListOf(seen)]
            IN  last' = [op |-> "schedule", db |-> db, limit |-> limit,
                         exclude |-> exclude, now |-> ScheduleNow,
                         words |-> schedule(db, limit, exclude, ScheduleNow)]
    /\ ops' = ops + 1
    /\ UNCHANGED <<local, server, net, clock, srs, reviewdb, items>>

ScheduleNext == ScheduleAction

ScheduleSpec == ScheduleInit /\ [][ScheduleNext]_vars

Scheduling == last.op = "schedule"

\* C32: schedule(db, limit, exclude) returns at most `limit` words and never
\* returns a word contained in `exclude`, whether the word comes from the
\* due acknowledged reviews or from the unseen hard or easy words.
ScheduleRespectsLimitAndExclude ==
    Scheduling =>
        /\ Len(last.words) <= last.limit
        /\ \A i \in 1..Len(last.words) : last.words[i] \notin last.exclude

\* C33: after a sync request is accepted without conflict, the server's
\* stored difficulty and interval histograms equal the ones uploaded in that
\* request (they are what the next conflict response carries).
AcceptedUploadStoresHistograms ==
    Handled /\ ~last.conflict =>
        /\ StatValue("interval") = last.data.intervalStats
        /\ StatValue("difficulty") = last.data.difficultyStats
        /\ getAllStats(server.stat).intervalStats = last.data.intervalStats

Buckets(stats) == Cardinality(DOMAIN stats)

\* A too-hard tune merged a bucket into the one below it.
BucketCountLowered ==
    /\ TooHardTune
    /\ Buckets(last.after) = Buckets(last.before) - 1

\* C34: over review saves the Auto-Tuner never increases the number of
\* interval buckets: a too-easy tune keeps the count, a too-hard tune keeps
\* it or lowers it by one, and a ladder that no sync has replaced never has
\* more than the 17 seeded buckets or fewer than 2.
BucketCountNeverGrows ==
    /\ Answered =>
            /\ Buckets(last.mid) = Buckets(last.before)
            /\ Buckets(last.after) <= Buckets(last.before)
            /\ Buckets(last.after) >= Buckets(last.before) - 1
            /\ TooEasyTune => Buckets(last.after) = Buckets(last.before)
            /\ Buckets(last.after) < Buckets(last.before) => TooHardTune
    /\ \A d \in Devices :
            local[d].stats # EmptyStore =>
                /\ Buckets(local[d].stats) <= SeedBuckets + 1
                /\ Buckets(local[d].stats) >= 2

\* The word answered had a pending (unacknowledged) review.
AnsweredWhilePending == Answered /\ last.word \in DOMAIN last.db.unack

PendingReview == last.db.unack[last.word]

\* C35: when an item is answered again while its previous review is still
\* pending, the new review is computed from that pending review: the item
\* is not treated as new, the new review keeps the learned instant of the
\* first review, and the bucket counted is the one keyed by the pending
\* review's interval.
PendingAnswerBuildsOnPending ==
    AnsweredWhilePending =>
        /\ last.previous = <<PendingReview>>
        /\ last.outcome = "ok" => Produced.learned = PendingReview.learned
        /\ \A k \in DOMAIN last.before :
                k # PendingReview.interval => last.mid[k] = last.before[k]

\* The server's log holds the review (its dates in whole seconds).
InServerLog(r) ==
    \E i \in 1..Len(server.review) :
        server.review[i] = Row(r.word, Unix(r.learned), Unix(r.reviewed),
                               r.interval, r.sequenceNumber)

\* C36: a review saved locally while a sync is in flight is not marked
\* acknowledged by that sync unless the server's log contains it: after a
\* sync without conflict, each review in the local acknowledged log is also
\* in the server's log.
AcknowledgedAreOnServer ==
    Applied /\ last.outcome = "acknowledged" =>
        \A r \in StoreValues(local[last.device].ack) : InServerLog(r)

\* ---------------------------------------------------------------------
\* HandleSpec: handleSync as the server runs it, one goroutine per
\* request.  It runs no transaction: moreRecent is one statement and each
\* INSERT of saveReviews another, so the handlers of two requests
\* interleave between the SELECT and the INSERTs.
\* ---------------------------------------------------------------------

MaxSteps == 4

\* handleSync up to `reviews, err := moreRecent(db, data.Latest)`.
QueryStep(st, d) ==
    LET data == st.net[d].data
    IN  [st EXCEPT !.net[d] = [phase |-> "queried", data |-> data,
                               reviews |-> moreRecent(st.server.review,
                                                      data.latest)],
                   !.last = [op |-> "query", device |-> d],
                   !.ops = @ + 1]

\* handleSync from `if len(reviews) > 0` on, with the answer of the SELECT
\* made earlier; the reply keeps the request it answers.
FinishStep(st, d) ==
    LET data == st.net[d].data
        reviews == st.net[d].reviews
        stats == getAllStats(st.server.stat)
        conflict == Len(reviews) > 0
        resp == IF conflict
                THEN [reviews |-> reviews,
                      difficultyStats |-> stats.difficultyStats,
                      intervalStats |-> stats.intervalStats]
                ELSE [reviews |-> <<>>, difficultyStats |-> EmptyString,
                      intervalStats |-> EmptyString]
    IN  [st EXCEPT !.server.review =
                        IF conflict THEN @ ELSE saveReviews(@, data.reviews),
                   !.net[d] = [phase |-> "replied", data |-> resp,
                               request |-> data],
                   !.last = [op |-> "finish", device |-> d, data |-> data,
                             before |-> st.server, resp |-> resp,
                             conflict |-> conflict],
                   !.ops = @ + 1]

\* Both devices have answers to upload.
Uploads ==
    { \* neither device has synced before
      <<Save("d1", 1, TRUE, 0), Save("d2", 2, TRUE, 0)>>,
      \* ... and device d2 has answered its word twice
      <<Save("d1", 1, TRUE, 0), Save("d2", 2, FALSE, 0),
        Save("d2", 2, TRUE, 0)>>,
      \* both devices have acknowledged word 1 and answered since
      <<Save("d1", 1, TRUE, 0), Sync("d1"), Sync("d2"), Tick(24 * hour),
        Save("d1", 1, TRUE, 0), Save("d2", 2, TRUE, 0)>>,
      \* device d1 is ahead of device d2
      <<Save("d1", 1, TRUE, 0), Sync("d1"), Save("d1", 2, TRUE, 0),
        Save("d2", 2, TRUE, 0)>>,
      \* only device d1 has something to upload
      <<Save("d1", 1, TRUE, 0)>> }

\* ... and none, one or both of them have sent their request.
HandleHistories ==
    {uploads \o sent :
        uploads \in Uploads,
        sent \in {<<>>, <<Send("d1")>>, <<Send("d1"), Send("d2")>>}}

HandleInit ==
    \E history \in HandleHistories :
        LET st == Run(Fresh, history)
        IN  /\ local = st.local
            /\ server = st.server
            /\ net = st.net
            /\ clock = st.clock
            /\ srs = st.srs
            /\ reviewdb = st.reviewdb
            /\ items = FreshBuffer
            /\ last = st.last
            /\ ops = 0

SendAction ==
    /\ ops < MaxSteps
    /\ \E d \in Devices :
            /\ net[d].phase = "idle"
            /\ Becomes(PrepareStep(Now, d))

QueryAction ==
    /\ ops < MaxSteps
    /\ \E d \in Devices :
            /\ net[d].phase = "sent"
            /\ Becomes(QueryStep(Now, d))

FinishAction ==
    /\ ops < MaxSteps
    /\ \E d \in Devices :
            /\ net[d].phase = "queried"
            /\ Becomes(FinishStep(Now, d))

ReceiveAction ==
    /\ ops < MaxSteps
    /\ \E d \in Devices :
            /\ net[d].phase = "replied"
            /\ Becomes(ApplyStep(Now, d))

HandleNext ==
    \/ SendAction
    \/ QueryAction
    \/ FinishAction
    \/ ReceiveAction

HandleSpec == HandleInit /\ [][HandleNext]_vars

\* The request of device d was answered with the empty response.
Accepted(d) ==
    /\ net[d].phase = "replied"
    /\ Len(net[d].data.reviews) = 0

\* C37: when two sync requests from different devices carrying the same
\* latest acknowledged number and pending reviews are handled concurrently,
\* at most one of them is accepted (the other is answered with a conflict).
ConcurrentUploadsOneAccepted ==
    \A d, e \in Devices :
        /\ d # e
        /\ Accepted(d)
        /\ Accepted(e)
        /\ net[d].request.latest = net[e].request.latest
        /\ Len(net[d].request.reviews) > 0
        => Len(net[e].request.reviews) = 0

\* The pending reviews the device had before this response that the server
\* returned in it: the server stored them from a request whose response
\* never arrived.
LostUploads ==
    {r \in StoreValues(last.before.unack) :
        \E i \in 1..Len(last.resp.reviews) :
            last.resp.reviews[i] = Row(r.word, Unix(r.learned), Unix(r.reviewed),
                                       r.interval, r.sequenceNumber)}

RetriedAfterLostResponse == Applied /\ LostUploads # {}

\* C38: when the server accepted a sync request whose response never reached
\* the device, then after the device's next sync each review of the lost
\* request is in the local acknowledged log and exactly once in the server's
\* log, and the local histograms still hold the counts those reviews
\* recorded.
RetryRecoversLostUpload ==
    RetriedAfterLostResponse =>
        /\ \A r \in LostUploads :
                /\ r.word \in DOMAIN local[last.device].ack
                /\ local[last.device].ack[r.word].sequenceNumber = r.sequenceNumber
                /\ Cardinality({i \in 1..Len(server.review) :
                        /\ server.review[i].word = r.word
                        /\ server.review[i].sequenceNumber = r.sequenceNumber}) = 1
        /\ \A k \in DOMAIN last.before.stats :
                /\ k \in DOMAIN local[last.device].stats
                /\ local[last.device].stats[k] = last.before.stats[k]

\* The last three operations were one sync() of a device: its request, the
\* server's handling of it and the response applied, nothing in between.
SyncCompletedAlone == Applied /\ last.follows

\* The server's review of the word with the highest sequence number (the
\* last inserted of them).
ServerLatest(word) ==
    LET rows == {i \in 1..Len(server.review) : server.review[i].word = word}
        best == Max({server.review[i].sequenceNumber : i \in rows})
    IN  server.review[Max({i \in rows : server.review[i].sequenceNumber = best})]

ServerWords == {server.review[i].word : i \in 1..Len(server.review)}

\* C39: whenever a sync completes (either branch) with no review save or
\* other sync interleaved, for every word in the server's log the local
\* acknowledged entry of that word equals the server's review of that word
\* with the highest sequence number, and the local pending log is empty.
SyncedLogsAgree ==
    SyncCompletedAlone =>
        /\ local[last.device].unack = EmptyStore
        /\ \A word \in ServerWords :
                /\ word \in DOMAIN local[last.device].ack
                /\ LET r == local[last.device].ack[word]
                   IN  Row(r.word, Unix(r.learned), Unix(r.reviewed),
                           r.interval, r.sequenceNumber) = ServerLatest(word)

\* ---------------------------------------------------------------------
\* ItemBuffer (buffer.ts)
\* ---------------------------------------------------------------------

\* add(item): refused when a word of the item is in keys; otherwise the
\* item is pushed and its words are added to keys.
add(b, item) ==
    IF item \cap b.keys # {} THEN b
    ELSE [b EXCEPT !.buffer = Append(@, item), !.keys = @ \cup item]

\* take(): this.buffer.shift().  With an empty buffer it first adds the
\* items it fetched (AddAction below) and returns undefined when there is
\* still none.
take(b) ==
    IF b.buffer = <<>> THEN b
    ELSE [b EXCEPT !.buffer = Tail(@), !.taken = @ \cup Head(b.buffer)]

\* clearStale(), with `level` the result of placement: when the level
\* changed, this.buffer.splice(2) keeps the first two items.
clearStale(b, level) ==
    [b EXCEPT !.buffer = IF b.frequencyClass # <<>> /\ b.frequencyClass[1] # level
                         THEN Prefix(@, 2) ELSE @,
              !.frequencyClass = <<level>>]

\* The "polycloze-review" listener after `await saveReview(...)`: when that
\* resolved, this.keys.delete(word) and clearStale(); when it rejected the
\* listener ends there.
listener(b, word, resolved, level) ==
    LET reviewed == [b EXCEPT !.taken = @ \ {word}]
    IN  IF resolved
        THEN clearStale([reviewed EXCEPT !.keys = @ \ {word}], level)
        ELSE reviewed

\* ---------------------------------------------------------------------
\* BufferSpec: the page's ItemBuffer on device d1.
\* ---------------------------------------------------------------------

MaxEvents == 7

Page == "d1"

BufferWords == 1..(NumWords + 2)

\* The items the server sends: one per word, and one with two blanks.
Items == {{w} : w \in BufferWords} \cup {{1, 2}}

\* The levels placement returns as word-list and difficulty-stats change.
Levels == 0..1

BufferInit == StatsInit

Keeps(b, op) ==
    /\ items' = b
    /\ last' = [op |-> op]
    /\ ops' = ops + 1
    /\ UNCHANGED <<local, server, net, clock, srs, reviewdb>>

\* items.forEach(item => this.add(item)) of take() and backgroundFetch, for
\* one fetched item.
AddAction ==
    /\ ops < MaxEvents
    /\ \E item \in Items : Keeps(add(items, item), "add")

TakeAction ==
    /\ ops < MaxEvents
    /\ Keeps(take(items), "take")

\* The learner answers a blank of an item that was taken: the event reaches
\* the listener, which saves the review first and is the only caller of
\* clearStale.
ReviewAction ==
    /\ ops < MaxEvents
    /\ \E word \in items.taken, correct \in BOOLEAN, level \in Levels :
            LET st == SaveStep(Now, Page, word, correct, 0)
            IN  /\ items' = listener(items, word, st.last.outcome = "ok", level)
                /\ local' = st.local
                /\ clock' = st.clock
                /\ last' = [op |-> "review", word |-> word,
                            outcome |-> st.last.outcome]
                /\ ops' = ops + 1
                /\ UNCHANGED <<server, net, srs, reviewdb>>

BufferNext ==
    \/ AddAction
    \/ TakeAction
    \/ ReviewAction

BufferSpec == BufferInit /\ [][BufferNext]_vars

\* The words of the items in the buffer.
Buffered == UNION {items.buffer[i] : i \in 1..Len(items.buffer)}

\* C40: every word in `keys` belongs to an item that is in the buffer or
\* that was taken and has not been reviewed yet: no word stays in keys once
\* clearStale has dropped its item from the buffer.
KeysAreBufferedOrTaken == items.keys \subseteq Buffered \cup items.taken

=========================================================================
